---------------------------- MODULE Spec2Model ----------------------------
(***************************************************************************)
(* Model of the "calming baby" application (thestephse/mycalmbaby):        *)
(*   - the corner-tap unlock state machine of the animation screen         *)
(*     (src/app/animation.tsx), fed by the onboarding screen               *)
(*     (src/app/onboarding.tsx) through AsyncStorage;                      *)
(*   - the corner hit test getCornerFromTouch as a pure function;          *)
(*   - the WhiteNoiseGenerator engines (src/app/utils/WhiteNoiseGenerator  *)
(*     .ts, src/unnamed/part_002, src/unnamed/part_005).                   *)
(*                                                                         *)
(* Time is abstracted: a pending timer is a state component holding the    *)
(* delay it was scheduled with, and its callback is an action that may     *)
(* fire while the timer is pending.  Coordinates are in quarter pixels so  *)
(* that 25% of a screen dimension is an integer.                           *)
(***************************************************************************)
EXTENDS Integers, Sequences, FiniteSets, TLC

VARIABLES
    \* ---- process-wide ----
    route,                  \* screen shown by expo-router
    stSequence,             \* AsyncStorage 'unlockSequence' (JSON text) or Null
    stCompleted,            \* AsyncStorage 'hasCompletedOnboarding' = 'true'
    width, height,          \* Dimensions.get('window'), in pixels
    sessions,               \* animation screens mounted since launch
    \* ---- onboarding screen state ----
    tappedCorners,          \* useState tappedCorners
    setupSequence,          \* useState unlockSequence of OnboardingScreen
    \* ---- animation screen state ----
    unlockSequence,         \* useState unlockSequence of AnimationScreen
    currentSequence,        \* useState currentSequence (the accumulator)
    wrongSequenceIndicator, \* useState wrongSequenceIndicator
    isPlaying,              \* useState isPlaying (an effect dependency)
    settingsLoading,        \* init() of the running effect has not finished
    soundRef,               \* soundRef.current: "none", "playing", "unloaded"
    sequenceTimeout,        \* delay of the pending idle timer, 0 when none
    indicatorTimers,        \* pending "hide indicator" timers
    sleepTimers,            \* pending sleep timers of the mounted screen
    fading,                 \* exit fade of the mounted screen: cause or "none"
    staleExits,             \* sleep timers and exit fades unmounted screens left
    lastEvent,              \* outcome of the last tap or idle timeout (observed)
    \* ---- hit-test probe ----
    probe,                  \* last point probed and its classification
    \* ---- noise engine ----
    engine,                 \* WhiteNoiseGenerator fields and call in flight
    \* ---- dual-sound looping of the earlier AnimationScreen ----
    seamless,               \* the two sounds, the loop and the exit in flight
    \* ---- WAV encoder ----
    wav,                    \* parameters and header of the generated buffer
    \* ---- onboarding screen of src/unnamed/part_006 ----
    setup006,               \* its state, storage and the taps made (observed)
    \* ---- fades of the noise engines, step by step ----
    fader,                  \* engine fields, calls in flight and fade timers
    \* ---- effect of the animation screen, run by run ----
    effect                  \* storage, state, closures and sleep timers

appVars == <<route, stSequence, stCompleted, sessions, tappedCorners,
             setupSequence, unlockSequence, currentSequence,
             wrongSequenceIndicator, isPlaying, settingsLoading, soundRef,
             sequenceTimeout, indicatorTimers, sleepTimers, fading,
             staleExits, lastEvent>>

sideVars == <<probe, engine, seamless, wav, setup006, fader, effect>>

vars == <<appVars, width, height, sideVars>>

Null == "null"

Min(a, b) == IF a <= b THEN a ELSE b
Max(a, b) == IF a >= b THEN a ELSE b
SetMin(S) == CHOOSE m \in S : \A k \in S : m <= k

-----------------------------------------------------------------------------
(* Corners and the JSON text kept in AsyncStorage                          *)

Corner == {"TL", "TR", "BL", "BR"}

\* The characters of a corner identifier, as JSON.stringify writes them.
CornerChars(c) ==
    CASE c = "TL" -> <<"T", "L">>
      [] c = "TR" -> <<"T", "R">>
      [] c = "BL" -> <<"B", "L">>
      [] c = "BR" -> <<"B", "R">>

RECURSIVE JSONItems(_)
JSONItems(s) ==
    IF s = <<>> THEN <<>>
    ELSE <<"\"">> \o CornerChars(Head(s)) \o <<"\"">>
         \o (IF Len(s) > 1 THEN <<",">> ELSE <<>>) \o JSONItems(Tail(s))

\* JSON.stringify of an array of corner strings: ["TL","BR",...]
JSONStringify(s) == <<"[">> \o JSONItems(s) \o <<"]">>

\* The string made of two characters, when it is a corner identifier.
CornerOf(a, b) ==
    IF \E c \in Corner : CornerChars(c) = <<a, b>>
    THEN CHOOSE c \in Corner : CornerChars(c) = <<a, b>>
    ELSE Null

RECURSIVE ParseItems(_)
ParseItems(t) ==
    IF Len(t) >= 4 /\ t[1] = "\"" /\ t[4] = "\""
    THEN <<CornerOf(t[2], t[3])>>
         \o (IF Len(t) >= 5 /\ t[5] = ","
             THEN ParseItems(SubSeq(t, 6, Len(t)))
             ELSE <<>>)
    ELSE <<>>

\* JSON.parse of such a text: the array between the brackets.
JSONParse(t) ==
    IF Len(t) >= 2 /\ t[1] = "[" /\ t[Len(t)] = "]"
    THEN ParseItems(SubSeq(t, 2, Len(t) - 1))
    ELSE <<>>

-----------------------------------------------------------------------------
(* Corner zones and the hit test (animation.tsx)                           *)

\* Quarter pixels per pixel: the unit in which 0.25 * dimension is exact.
Q == 4

MIN_CORNER_PX == 120

\* Faulty variant: half of the shorter dimension instead of a quarter.
CORNER_SIZE_Half(w, h) == Max(MIN_CORNER_PX * Q, Min(w, h) * 2)

\* CORNER_SIZE = Math.max(120, Math.min(width, height) * 0.25), in quarter px.
CORNER_SIZE(w, h) == Max(MIN_CORNER_PX * Q, Min(w, h))

\* touchZones, in the order the array literal lists them (quarter px).
touchZones(w, h) ==
    LET cs == CORNER_SIZE(w, h) IN
    << [corner |-> "TL", x |-> 0,          y |-> 0,          width |-> cs, height |-> cs],
       [corner |-> "TR", x |-> w * Q - cs, y |-> 0,          width |-> cs, height |-> cs],
       [corner |-> "BL", x |-> 0,          y |-> h * Q - cs, width |-> cs, height |-> cs],
       [corner |-> "BR", x |-> w * Q - cs, y |-> h * Q - cs, width |-> cs, height |-> cs] >>

\* Faulty variant: the far edges are excluded.
InZoneExclusive(zone, x, y) ==
    /\ x >= zone.x
    /\ x < zone.x + zone.width
    /\ y >= zone.y
    /\ y < zone.y + zone.height

\* The test of one zone inside getCornerFromTouch's loop.
InZone(zone, x, y) ==
    /\ x >= zone.x
    /\ x <= zone.x + zone.width
    /\ y >= zone.y
    /\ y <= zone.y + zone.height

\* Indices of the zones that contain the point.
ZoneHits(w, h, x, y) ==
    {i \in 1..4 : InZone(touchZones(w, h)[i], x, y)}

\* getCornerFromTouch: the first zone of touchZones that contains the point.
getCornerFromTouch(w, h, x, y) ==
    IF ZoneHits(w, h, x, y) = {} THEN Null
    ELSE touchZones(w, h)[SetMin(ZoneHits(w, h, x, y))].corner

-----------------------------------------------------------------------------
(* Bounds of the model                                                     *)

\* Corners offered to the onboarding taps.
SetupCorners == {"TL", "BR"}

\* Animation screens opened between two launches of the app.
MaxSessions == 1

\* Longest accumulator the taps are allowed to build.
MaxAccumulator == 5

\* Pending "hide indicator" timers.
MaxIndicatorTimers == 1

\* Window sizes (pixels) of the application runs.
AppScreens == {<<320, 568>>}

\* Tap points of the application runs (quarter px): the centre of the
\* top-left zone, the centre of the bottom-right zone, the screen centre.
TapPoints(w, h) ==
    LET cs == CORNER_SIZE(w, h) IN
    { <<cs \div 2, cs \div 2>>,
      <<w * Q - cs \div 2, h * Q - cs \div 2>>,
      <<(w * Q) \div 2, (h * Q) \div 2>> }

-----------------------------------------------------------------------------
(* Program constants                                                       *)

SEQUENCE_TIMEOUT == 3000
SEQUENCE_LENGTH == 4

-----------------------------------------------------------------------------
(* Initial state: a fresh install showing the index screen                 *)

AnimationDefaults ==
    [ unlockSequence |-> <<>>, currentSequence |-> <<>>,
      wrongSequenceIndicator |-> FALSE, isPlaying |-> FALSE ]

InitEngine ==
    engine = [rev |-> "none"]

InitProbe ==
    probe = [x |-> -1, y |-> -1, corner |-> Null]

InitSeamless ==
    seamless = [load |-> "none"]

InitWav ==
    wav = [rev |-> "none"]

InitSetup006 ==
    setup006 = [rev |-> "none"]

InitFader ==
    fader = [rev |-> "none"]

InitEffect ==
    effect = [rev |-> "none"]

InitAppVars ==
    /\ route = "index"
    /\ stSequence = Null
    /\ stCompleted = FALSE
    /\ sessions = 0
    /\ tappedCorners = <<>>
    /\ setupSequence = <<>>
    /\ unlockSequence = AnimationDefaults.unlockSequence
    /\ currentSequence = AnimationDefaults.currentSequence
    /\ wrongSequenceIndicator = AnimationDefaults.wrongSequenceIndicator
    /\ isPlaying = AnimationDefaults.isPlaying
    /\ settingsLoading = 0
    /\ soundRef = "none"
    /\ sequenceTimeout = 0
    /\ indicatorTimers = 0
    /\ sleepTimers = 0
    /\ fading = "none"
    /\ staleExits = 0
    /\ lastEvent = "none"

Init ==
    /\ InitAppVars
    /\ \E size \in AppScreens : width = size[1] /\ height = size[2]
    /\ InitProbe
    /\ InitEngine
    /\ InitSeamless
    /\ InitWav
    /\ InitSetup006
    /\ InitFader
    /\ InitEffect

-----------------------------------------------------------------------------
(* Index, onboarding and main-menu screens                                 *)

FreshOnboarding ==
    /\ tappedCorners' = <<>>
    /\ setupSequence' = <<>>

\* The state a newly mounted AnimationScreen starts with; its effect runs
\* init(), which is in flight until InitComplete.
MountAnimation ==
    /\ unlockSequence' = AnimationDefaults.unlockSequence
    /\ currentSequence' = AnimationDefaults.currentSequence
    /\ wrongSequenceIndicator' = AnimationDefaults.wrongSequenceIndicator
    /\ isPlaying' = AnimationDefaults.isPlaying
    /\ settingsLoading' = 1
    /\ soundRef' = "none"
    /\ sequenceTimeout' = 0
    /\ indicatorTimers' = 0
    /\ sleepTimers' = 0
    /\ fading' = "none"

\* The AnimationScreen leaves the screen.  The effect's cleanup clears the
\* idle timer; the state of the component is dropped; the sleep timers (also
\* those its init() calls in flight still start) and `leftFades` exit fades
\* stay scheduled, since nothing cancels them; `firedTimers` of the sleep
\* timers have just fired.
UnmountAnimation(leftFades, firedTimers) ==
    /\ unlockSequence' = AnimationDefaults.unlockSequence
    /\ currentSequence' = AnimationDefaults.currentSequence
    /\ wrongSequenceIndicator' = AnimationDefaults.wrongSequenceIndicator
    /\ isPlaying' = AnimationDefaults.isPlaying
    /\ settingsLoading' = 0
    /\ soundRef' = "none"
    /\ sequenceTimeout' = 0
    /\ indicatorTimers' = 0
    /\ sleepTimers' = 0
    /\ fading' = "none"
    /\ staleExits' = staleExits + sleepTimers + settingsLoading
                      - firedTimers + leftFades

animationVars == <<unlockSequence, currentSequence, wrongSequenceIndicator,
                   isPlaying, settingsLoading, soundRef, sequenceTimeout,
                   indicatorTimers, sleepTimers, fading>>

\* checkOnboardingStatus of the index screen.  readOk: the two getItem calls
\* resolve; retryOk: the getItem of the catch block resolves.
checkOnboardingStatus(readOk, retryOk) ==
    /\ route = "index"
    /\ route' = IF readOk
                THEN (IF stCompleted
                      THEN (IF stSequence = Null THEN "onboarding" ELSE "main-menu")
                      ELSE "onboarding")
                ELSE (IF retryOk /\ stCompleted THEN "main-menu" ELSE "onboarding")
    /\ FreshOnboarding
    \* observer: the catch block of the status check ran
    /\ lastEvent' = IF readOk THEN "none" ELSE "readFailed"
    /\ UNCHANGED <<stSequence, stCompleted, sessions, animationVars,
                   staleExits, width, height, sideVars>>

\* Faulty variant: taps after the fourth are appended too.
handleCornerTap_Unguarded(corner) ==
    /\ route = "onboarding"
    /\ LET newTapped == Append(tappedCorners, corner) IN
         /\ tappedCorners' = newTapped
         /\ setupSequence' = IF Len(newTapped) = SEQUENCE_LENGTH
                             THEN newTapped ELSE setupSequence
    /\ lastEvent' = "none"
    /\ UNCHANGED <<route, stSequence, stCompleted, sessions, animationVars,
                   staleExits, width, height, sideVars>>

\* handleCornerTap of the onboarding screen.
handleCornerTap(corner) ==
    /\ route = "onboarding"
    /\ IF Len(tappedCorners) < SEQUENCE_LENGTH
       THEN LET newTapped == Append(tappedCorners, corner) IN
            /\ tappedCorners' = newTapped
            /\ setupSequence' = IF Len(newTapped) = SEQUENCE_LENGTH
                                THEN newTapped ELSE setupSequence
       ELSE UNCHANGED <<tappedCorners, setupSequence>>
    /\ lastEvent' = "none"
    /\ UNCHANGED <<route, stSequence, stCompleted, sessions, animationVars,
                   staleExits, width, height, sideVars>>

resetSequence ==
    /\ route = "onboarding"
    /\ tappedCorners' = <<>>
    /\ setupSequence' = <<>>
    /\ lastEvent' = "none"
    /\ UNCHANGED <<route, stSequence, stCompleted, sessions, animationVars,
                   staleExits, width, height, sideVars>>

\* confirmSequence.  outcome: "ok", or which of the two setItem calls rejects.
confirmSequence(outcome) ==
    /\ route = "onboarding"
    /\ Len(setupSequence) = SEQUENCE_LENGTH
    /\ stSequence' = IF outcome = "failFirst" THEN stSequence
                     ELSE JSONStringify(setupSequence)
    /\ stCompleted' = IF outcome = "ok" THEN TRUE ELSE stCompleted
    /\ route' = IF outcome = "ok" THEN "main-menu" ELSE route
    /\ lastEvent' = "none"
    /\ UNCHANGED <<tappedCorners, setupSequence, sessions, animationVars,
                   staleExits, width, height, sideVars>>

\* handlePlay of the main menu: router.push('/animation').
handlePlay ==
    /\ route = "main-menu"
    /\ sessions < MaxSessions
    /\ route' = "animation"
    /\ sessions' = sessions + 1
    /\ MountAnimation
    /\ lastEvent' = "none"
    /\ UNCHANGED <<stSequence, stCompleted, tappedCorners, setupSequence,
                   staleExits, width, height, sideVars>>

\* handleChangeUnlock of the main menu: router.push('/onboarding?step=...').
handleChangeUnlock ==
    /\ route = "main-menu"
    /\ route' = "onboarding"
    /\ FreshOnboarding
    /\ lastEvent' = "none"
    /\ UNCHANGED <<stSequence, stCompleted, sessions, animationVars,
                   staleExits, width, height, sideVars>>

\* The app is closed and opened again: memory and timers are gone, the
\* storage stays.
Relaunch ==
    /\ route \in {"main-menu", "onboarding"}
    /\ route' = "index"
    /\ sessions' = 0
    /\ FreshOnboarding
    /\ staleExits' = 0
    /\ lastEvent' = "none"
    /\ UNCHANGED <<stSequence, stCompleted, animationVars, width, height,
                   sideVars>>

-----------------------------------------------------------------------------
(* Animation screen                                                        *)

\* init() of the effect, from loadSettings on: the stored sequence is read
\* and parsed (loadOk: the getItem calls resolve), loadAndPlayWhiteNoise
\* creates and starts the sound (soundOk: createAsync resolves) unless
\* soundRef already holds a sound, and the sleep timer is started.  The
\* storage holds no 'sleepTimer' and no 'whiteNoiseEnabled' key in this
\* model, so both keep their defaults (30 minutes, enabled).
InitComplete(loadOk, soundOk) ==
    /\ route = "animation"
    /\ settingsLoading > 0
    /\ settingsLoading' = settingsLoading - 1
    /\ unlockSequence' = IF loadOk /\ stSequence # Null
                         THEN JSONParse(stSequence) ELSE unlockSequence
    /\ soundRef' = IF soundRef = "none"
                   THEN (IF soundOk THEN "playing" ELSE "none")
                   ELSE (IF soundRef = "playing" /\ soundOk THEN "playing"
                         ELSE "unloaded")
    /\ sleepTimers' = sleepTimers + 1
    /\ UNCHANGED <<lastEvent, route, stSequence, stCompleted, sessions, tappedCorners,
                   setupSequence, currentSequence, wrongSequenceIndicator,
                   isPlaying, sequenceTimeout, indicatorTimers, fading,
                   staleExits, width, height, sideVars>>

\* The playback status callback reports a playing state that differs from
\* isPlaying: setIsPlaying changes a dependency of the effect, so its cleanup
\* runs (the sound is stopped and unloaded, the idle timer is cleared) and
\* the effect runs init() again.
PlaybackStatusUpdate ==
    /\ route = "animation"
    /\ soundRef # "none"
    /\ isPlaying # (soundRef = "playing")
    /\ isPlaying' = (soundRef = "playing")
    /\ soundRef' = "unloaded"
    /\ sequenceTimeout' = 0
    /\ settingsLoading' = settingsLoading + 1
    /\ UNCHANGED <<lastEvent, route, stSequence, stCompleted, sessions, tappedCorners,
                   setupSequence, unlockSequence, currentSequence,
                   wrongSequenceIndicator, indicatorTimers, sleepTimers,
                   fading, staleExits, width, height,
                   sideVars>>

\* Faulty variant: one matching position is enough.
isCorrectAny(newSequence, unlock) ==
    \E index \in 1..Len(newSequence) : newSequence[index] = unlock[index]

\* newSequence.every((corner, index) => corner === unlockSequence[index])
isCorrect(newSequence, unlock) ==
    \A index \in 1..Len(newSequence) : newSequence[index] = unlock[index]

\* Faulty variant: a wrong prefix is compared as soon as it is entered.
sequenceCompleteOrWrongPrefix(newSequence, unlock) ==
    \/ Len(newSequence) = Len(unlock)
    \/ /\ Len(newSequence) < Len(unlock)
       /\ ~isCorrect(newSequence, unlock)

\* if (newSequence.length === unlockSequence.length)
sequenceComplete(newSequence, unlock) ==
    Len(newSequence) = Len(unlock)

\* Faulty variant: the idle timer is cleared before the corner is tested.
ignoredTapClearsTimer ==
    /\ lastEvent' = "tapIgnored"
    /\ sequenceTimeout' = 0
    /\ UNCHANGED <<route, unlockSequence, currentSequence,
                   wrongSequenceIndicator, isPlaying, settingsLoading,
                   soundRef, indicatorTimers, sleepTimers, fading,
                   staleExits>>

\* if (!corner) return;
ignoredTap ==
    /\ lastEvent' = "tapIgnored"
    /\ UNCHANGED <<route, unlockSequence, currentSequence,
                   wrongSequenceIndicator, isPlaying, settingsLoading,
                   soundRef, sequenceTimeout, indicatorTimers, sleepTimers,
                   fading, staleExits>>

\* Faulty variant: taps are ignored while the wrong-sequence indicator shows.
handleTouchLockedOut(x, y) ==
    LET corner == getCornerFromTouch(width, height, x, y)
        newSequence == Append(currentSequence, corner)
    IN
    /\ route = "animation"
    /\ IF corner = Null \/ wrongSequenceIndicator
       THEN ignoredTap
       ELSE /\ Len(currentSequence) < MaxAccumulator
            /\ IF sequenceComplete(newSequence, unlockSequence)
               THEN IF isCorrect(newSequence, unlockSequence)
                    THEN /\ lastEvent' = "unlocked"
                         /\ IF fading = "none"
                            THEN /\ fading' = "unlock"
                                 /\ currentSequence' = newSequence
                                 /\ sequenceTimeout' = 0
                                 /\ UNCHANGED <<route, unlockSequence,
                                        wrongSequenceIndicator, isPlaying,
                                        settingsLoading, soundRef,
                                        indicatorTimers, sleepTimers,
                                        staleExits>>
                            ELSE /\ route' = "main-menu"
                                 /\ UnmountAnimation(1, 0)
                    ELSE /\ indicatorTimers < MaxIndicatorTimers
                         /\ lastEvent' = "rejected"
                         /\ wrongSequenceIndicator' = TRUE
                         /\ currentSequence' = <<>>
                         /\ sequenceTimeout' = 0
                         /\ indicatorTimers' = indicatorTimers + 1
                         /\ UNCHANGED <<route, unlockSequence, isPlaying,
                                settingsLoading, soundRef, sleepTimers,
                                fading, staleExits>>
               ELSE /\ lastEvent' = "tapAccepted"
                    /\ currentSequence' = newSequence
                    /\ sequenceTimeout' = SEQUENCE_TIMEOUT
                    /\ UNCHANGED <<route, unlockSequence,
                           wrongSequenceIndicator, isPlaying, settingsLoading,
                           soundRef, indicatorTimers, sleepTimers, fading,
                           staleExits>>
    /\ UNCHANGED <<stSequence, stCompleted, sessions, tappedCorners,
                   setupSequence, width, height, sideVars>>

\* handleTouch(x, y), with fadeOutAndExit when the sequence is correct.  A
\* fade started while the screen's exit fade is running stops that one,
\* whose callback navigates at once; the new fade stays scheduled.
handleTouch(x, y) ==
    LET corner == getCornerFromTouch(width, height, x, y)
        newSequence == Append(currentSequence, corner)
    IN
    /\ route = "animation"
    /\ IF corner = Null
       THEN ignoredTap
       ELSE /\ Len(currentSequence) < MaxAccumulator
            /\ IF sequenceComplete(newSequence, unlockSequence)
               THEN IF isCorrect(newSequence, unlockSequence)
                    THEN /\ lastEvent' = "unlocked"
                         /\ IF fading = "none"
                            THEN /\ fading' = "unlock"
                                 /\ currentSequence' = newSequence
                                 /\ sequenceTimeout' = 0
                                 /\ UNCHANGED <<route, unlockSequence,
                                        wrongSequenceIndicator, isPlaying,
                                        settingsLoading, soundRef,
                                        indicatorTimers, sleepTimers,
                                        staleExits>>
                            ELSE /\ route' = "main-menu"
                                 /\ UnmountAnimation(1, 0)
                    ELSE /\ indicatorTimers < MaxIndicatorTimers
                         /\ lastEvent' = "rejected"
                         /\ wrongSequenceIndicator' = TRUE
                         /\ currentSequence' = <<>>
                         /\ sequenceTimeout' = 0
                         /\ indicatorTimers' = indicatorTimers + 1
                         /\ UNCHANGED <<route, unlockSequence, isPlaying,
                                settingsLoading, soundRef, sleepTimers,
                                fading, staleExits>>
               ELSE /\ lastEvent' = "tapAccepted"
                    /\ currentSequence' = newSequence
                    /\ sequenceTimeout' = SEQUENCE_TIMEOUT
                    /\ UNCHANGED <<route, unlockSequence,
                           wrongSequenceIndicator, isPlaying, settingsLoading,
                           soundRef, indicatorTimers, sleepTimers, fading,
                           staleExits>>
    /\ UNCHANGED <<stSequence, stCompleted, sessions, tappedCorners,
                   setupSequence, width, height, sideVars>>

\* The callback of the idle timer set at the end of handleTouch.
SequenceTimeoutFire ==
    /\ route = "animation"
    /\ sequenceTimeout # 0
    /\ indicatorTimers < MaxIndicatorTimers
    /\ currentSequence' = <<>>
    /\ wrongSequenceIndicator' = TRUE
    /\ indicatorTimers' = indicatorTimers + 1
    /\ sequenceTimeout' = 0
    /\ lastEvent' = "timedOut"
    /\ UNCHANGED <<route, stSequence, stCompleted, sessions, tappedCorners,
                   setupSequence, unlockSequence, isPlaying, settingsLoading,
                   soundRef, sleepTimers, fading, staleExits, width, height, sideVars>>

\* setTimeout(() => setWrongSequenceIndicator(false), 1000)
IndicatorHide ==
    /\ route = "animation"
    /\ indicatorTimers > 0
    /\ indicatorTimers' = indicatorTimers - 1
    /\ wrongSequenceIndicator' = FALSE
    /\ UNCHANGED <<lastEvent, route, stSequence, stCompleted, sessions, tappedCorners,
                   setupSequence, unlockSequence, currentSequence, isPlaying,
                   settingsLoading, soundRef, sequenceTimeout, sleepTimers,
                   fading, staleExits, width, height,
                   sideVars>>

\* The callback of a sleep timer of the mounted screen: fadeOutAndExit().
SleepTimerFire ==
    /\ route = "animation"
    /\ sleepTimers > 0
    /\ IF fading = "none"
       THEN /\ fading' = "sleep"
            /\ sleepTimers' = sleepTimers - 1
            /\ UNCHANGED <<lastEvent, route, unlockSequence, currentSequence,
                   wrongSequenceIndicator, isPlaying, settingsLoading,
                   soundRef, sequenceTimeout, indicatorTimers,
                   staleExits>>
       ELSE /\ route' = "main-menu"
            /\ UnmountAnimation(1, 1)
            /\ lastEvent' = "exitSleep"
    /\ UNCHANGED <<stSequence, stCompleted, sessions, tappedCorners,
                   setupSequence, width, height, sideVars>>

\* The exit fade of the mounted screen ends: router.replace('/main-menu').
FadeComplete ==
    /\ route = "animation"
    /\ fading # "none"
    /\ route' = "main-menu"
    /\ UnmountAnimation(0, 0)
    /\ lastEvent' = IF fading = "unlock" THEN "exitUnlock" ELSE "exitSleep"
    /\ UNCHANGED <<stSequence, stCompleted, sessions, tappedCorners,
                   setupSequence, width, height, sideVars>>

\* A sleep timer of a screen that was left fires and the fade its
\* fadeOutAndExit starts ends (or a fade that screen left running ends):
\* router.replace('/main-menu'), whatever screen is shown.
StaleExit ==
    /\ staleExits > 0
    /\ route' = "main-menu"
    /\ IF route = "animation"
       THEN /\ UnmountAnimation((IF fading = "none" THEN 0 ELSE 1) - 1, 0)
            /\ lastEvent' = "exitSleep"
       ELSE /\ staleExits' = staleExits - 1
            /\ UNCHANGED <<animationVars, lastEvent>>
    /\ UNCHANGED <<stSequence, stCompleted, sessions, tappedCorners,
                   setupSequence, width, height, sideVars>>

\* The hardwareBackPress listener returns true: the press is swallowed.
hardwareBackPress ==
    /\ route = "animation"
    /\ UNCHANGED vars

-----------------------------------------------------------------------------
(* The application: onboarding, main menu and animation screen             *)

Next ==
    \/ \E readOk \in BOOLEAN, retryOk \in BOOLEAN :
           checkOnboardingStatus(readOk, retryOk)
    \/ \E corner \in SetupCorners : handleCornerTap(corner)
    \/ resetSequence
    \/ \E outcome \in {"ok", "failFirst", "failSecond"} : confirmSequence(outcome)
    \/ handlePlay
    \/ handleChangeUnlock
    \/ Relaunch
    \/ \E loadOk \in BOOLEAN, soundOk \in BOOLEAN : InitComplete(loadOk, soundOk)
    \/ PlaybackStatusUpdate
    \/ \E p \in TapPoints(width, height) : handleTouch(p[1], p[2])
    \/ SequenceTimeoutFire
    \/ IndicatorHide
    \/ SleepTimerFire
    \/ FadeComplete
    \/ StaleExit
    \/ hardwareBackPress

Spec == Init /\ [][Next]_vars

-----------------------------------------------------------------------------
(* The hit test probed over many window sizes                              *)

\* Window sizes (pixels): below, at and just above twice the 120 px floor,
\* phones in both orientations, the size where 25% equals the floor, and
\* sizes where 25% exceeds it.
ZoneScreens ==
    { <<200, 400>>, <<240, 320>>, <<241, 400>>, <<320, 568>>, <<375, 667>>,
      <<568, 320>>, <<480, 800>>, <<500, 900>>, <<768, 1024>> }

\* Coordinates probed along an axis of `len` pixels (quarter px): the edges
\* of the zones on that axis, one pixel to either side of each edge, the
\* middle of each zone and the middle of the axis, as far as they lie on
\* the screen.
AxisProbes(len, cs) ==
    { c \in { 0, Q, cs \div 2, cs - Q, cs, cs + Q,
              len * Q - cs - Q, len * Q - cs, len * Q - cs + Q,
              len * Q - cs \div 2, len * Q - Q, len * Q, (len * Q) \div 2 } :
        c >= 0 /\ c <= len * Q }

ProbePoints(w, h) ==
    AxisProbes(w, CORNER_SIZE(w, h)) \X AxisProbes(h, CORNER_SIZE(w, h))

\* const corner = getCornerFromTouch(x, y), observed.
Probe(x, y) ==
    /\ probe' = [x |-> x, y |-> y,
                 corner |-> getCornerFromTouch(width, height, x, y)]
    /\ UNCHANGED <<appVars, width, height, engine, seamless, wav, setup006,
                   fader, effect>>

InitZones ==
    /\ InitAppVars
    /\ \E size \in ZoneScreens : width = size[1] /\ height = size[2]
    /\ InitProbe
    /\ InitEngine
    /\ InitSeamless
    /\ InitWav
    /\ InitSetup006
    /\ InitFader
    /\ InitEffect

NextZones ==
    \E pt \in ProbePoints(width, height) : Probe(pt[1], pt[2])

SpecZones == InitZones /\ [][NextZones]_vars

-----------------------------------------------------------------------------
(* The WhiteNoiseGenerator engines.  engine.rev names the revision:        *)
(*   "ts"  src/app/utils/WhiteNoiseGenerator.ts (Web Audio nodes)          *)
(*   "002" src/unnamed/part_002 (sound loaded from a cached WAV file)      *)
(*   "005" src/unnamed/part_005 (sound loaded from an in-memory buffer)    *)
(* A call runs to its return in one step; the outcome of each awaited      *)
(* platform operation is an input of the step.  Volumes are in tenths.     *)
(* engine.call records what the last call returned and which operation     *)
(* failed in it, engine.prev the call before it (observation only).        *)

VolumeLevels == {0, 5, 10}

DEFAULT_VOLUME == 5

NoCall == [name |-> "none", result |-> "none", fault |-> "none",
           wasPlaying |-> FALSE]

\* The engine `e` after the call `name` returned `result`.
Returned(e, name, result, fault) ==
    [e EXCEPT !.call = [name |-> name, result |-> result, fault |-> fault,
                        wasPlaying |-> engine.isPlaying],
              !.prev = engine.call.name]

\* The fields of the class, without the observations.
EngineFields(e) == [e EXCEPT !.call = NoCall, !.prev = "none"]

engineFrame ==
    UNCHANGED <<appVars, width, height, probe, seamless, wav, setup006, fader, effect>>

-----------------------------------------------------------------------------
(* src/unnamed/part_005 *)

Engine005 ==
    [rev |-> "005", sound |-> "null", isPlaying |-> FALSE,
     volume |-> DEFAULT_VOLUME, whiteNoiseBuffer |-> FALSE,
     fadeInterval |-> FALSE, soundVolume |-> 0,
     call |-> NoCall, prev |-> "none"]

\* initialize(): createWhiteNoiseBuffer catches its own error, so only a
\* rejected setAudioModeAsync makes initialize return false.
Initialized005(e, audioModeOk, bufferOk) ==
    IF audioModeOk /\ bufferOk THEN [e EXCEPT !.whiteNoiseBuffer = TRUE] ELSE e

InitializeFault(audioModeOk, bufferOk) ==
    IF ~audioModeOk THEN "audioMode"
    ELSE IF ~bufferOk THEN "creation" ELSE "none"

initialize_005(audioModeOk, bufferOk) ==
    /\ engine.rev = "005"
    /\ engine' = Returned(Initialized005(engine, audioModeOk, bufferOk),
                          "initialize",
                          IF audioModeOk THEN "true" ELSE "false",
                          InitializeFault(audioModeOk, bufferOk))
    /\ engineFrame

\* play().  loadOk: loadAsync resolves; fadeOk: the setVolumeAsync calls of
\* fadeIn resolve (fadeIn catches their error).
play_005(audioModeOk, bufferOk, unloadOk, loadOk, fadeOk) ==
    LET needInit == ~engine.whiteNoiseBuffer
        e1 == IF needInit
              THEN Initialized005(engine, audioModeOk, bufferOk)
              ELSE engine
    IN
    /\ engine.rev = "005"
    /\ engine' =
         IF needInit /\ ~audioModeOk
         THEN Returned(e1, "play", "false", "audioMode")
         ELSE IF e1.isPlaying
         THEN Returned(e1, "play", "true", "none")
         ELSE IF ~e1.whiteNoiseBuffer
         THEN Returned(e1, "play", "false", "creation")
         ELSE IF e1.sound # "null" /\ ~unloadOk
         THEN Returned(e1, "play", "false", "unload")
         ELSE IF ~loadOk
         THEN Returned([e1 EXCEPT !.sound = "created", !.soundVolume = 0],
                       "play", "false", "creation")
         ELSE Returned([e1 EXCEPT !.sound = "loaded", !.isPlaying = TRUE,
                                  !.soundVolume = IF fadeOk THEN e1.volume
                                                  ELSE 0],
                       "play", "true", IF fadeOk THEN "none" ELSE "fade")
    /\ engineFrame

\* stop(): the catch block leaves the same fields as the normal path.
stop_005(stopOk) ==
    /\ engine.rev = "005"
    /\ engine' =
         IF ~engine.isPlaying \/ engine.sound = "null"
         THEN Returned(engine, "stop", "void", "none")
         ELSE Returned([engine EXCEPT !.sound = "null", !.isPlaying = FALSE,
                                      !.soundVolume = 0],
                       "stop", "void", IF stopOk THEN "none" ELSE "stop")
    /\ engineFrame

setVolume_005(volume, setOk) ==
    /\ engine.rev = "005"
    /\ engine' =
         Returned([engine EXCEPT
                     !.volume = volume,
                     !.soundVolume =
                         IF engine.sound # "null" /\ engine.isPlaying /\ setOk
                         THEN volume ELSE engine.soundVolume],
                  "setVolume", "void", "none")
    /\ engineFrame

cleanup_005(stopOk, unloadOk) ==
    LET e1 == [engine EXCEPT !.fadeInterval = FALSE]
        stops == e1.isPlaying /\ e1.sound # "null"
        e2 == [e1 EXCEPT !.isPlaying = IF stops THEN FALSE ELSE e1.isPlaying]
    IN
    /\ engine.rev = "005"
    /\ engine' =
         IF stops /\ ~stopOk
         THEN Returned(e1, "cleanup", "void", "stop")
         ELSE IF e2.sound # "null" /\ ~unloadOk
         THEN Returned(e2, "cleanup", "void", "unload")
         ELSE Returned([e2 EXCEPT !.sound = "null", !.soundVolume = 0,
                                  !.whiteNoiseBuffer = FALSE],
                       "cleanup", "void", "none")
    /\ engineFrame

-----------------------------------------------------------------------------
(* src/unnamed/part_002 *)

Engine002 ==
    [rev |-> "002", sound |-> "null", isInitialized |-> FALSE,
     isPlaying |-> FALSE, fadeInterval |-> "none",
     currentVolume |-> DEFAULT_VOLUME, targetVolume |-> DEFAULT_VOLUME,
     call |-> NoCall, prev |-> "none"]

initialize_002(audioModeOk) ==
    /\ engine.rev = "002"
    /\ engine' =
         IF audioModeOk
         THEN Returned([engine EXCEPT !.isInitialized = TRUE],
                       "initialize", "true", "none")
         ELSE Returned(engine, "initialize", "false", "audioMode")
    /\ engineFrame

\* loadSound() as <<engine after, returned value, failed operation>>.
\* createOk: the file write and Audio.Sound.createAsync resolve.
LoadSound002(e, audioModeOk, unloadOk, createOk) ==
    IF ~e.isInitialized /\ ~audioModeOk
    THEN <<e, "false", "audioMode">>
    ELSE LET e1 == [e EXCEPT !.isInitialized = TRUE] IN
         IF e1.sound # "null" /\ ~unloadOk
         THEN <<e1, "false", "unload">>
         ELSE LET e2 == [e1 EXCEPT !.sound = IF e1.sound = "null"
                                              THEN "null" ELSE "unloaded"]
              IN IF createOk
                 THEN <<[e2 EXCEPT !.sound = "loaded"], "true", "none">>
                 ELSE <<e2, "false", "creation">>

loadSound_002(audioModeOk, unloadOk, createOk) ==
    LET r == LoadSound002(engine, audioModeOk, unloadOk, createOk) IN
    /\ engine.rev = "002"
    /\ engine' = Returned(r[1], "loadSound", r[2], r[3])
    /\ engineFrame

\* play(volume).  playOk: playAsync resolves on a loaded sound; on an
\* unloaded sound it rejects.
play_002(volume, audioModeOk, unloadOk, createOk, playOk) ==
    LET needLoad == engine.sound = "null"
        r == LoadSound002(engine, audioModeOk, unloadOk, createOk)
        e1 == IF needLoad THEN r[1] ELSE engine
        e2 == [e1 EXCEPT !.targetVolume = volume]
    IN
    /\ engine.rev = "002"
    /\ engine' =
         IF needLoad /\ r[2] = "false"
         THEN Returned(e1, "play", "false", r[3])
         ELSE IF ~e2.isPlaying /\ (e2.sound # "loaded" \/ ~playOk)
         THEN Returned(e2, "play", "false", "play")
         ELSE Returned([e2 EXCEPT !.isPlaying = TRUE, !.fadeInterval = "in",
                                  !.currentVolume = 0],
                       "play", "true", "none")
    /\ engineFrame

\* The interval of fadeIn or fadeToVolume runs to its end.  The interval of
\* fadeToVolume never ends when it was started at its target volume.
fadeTick_002 ==
    /\ engine.rev = "002"
    /\ engine.fadeInterval \in {"in", "to"}
    /\ engine' =
         IF engine.fadeInterval = "to"
            /\ engine.currentVolume = engine.targetVolume
         THEN engine
         ELSE [engine EXCEPT !.currentVolume = engine.targetVolume,
                             !.fadeInterval = "none"]
    /\ engineFrame

\* Faulty variant: stop() without its early return.
stop_002_Unguarded(pauseOk) ==
    LET e1 == [engine EXCEPT !.currentVolume = 0, !.fadeInterval = "none"] IN
    /\ engine.rev = "002"
    /\ engine' =
         IF e1.sound # "loaded" \/ ~pauseOk
         THEN Returned(e1, "stop", "false", "pause")
         ELSE Returned([e1 EXCEPT !.isPlaying = FALSE],
                       "stop", "true", "none")
    /\ engineFrame

\* stop(): fadeOut runs to volume 0, then pauseAsync.
stop_002(pauseOk) ==
    LET e1 == [engine EXCEPT !.currentVolume = 0, !.fadeInterval = "none"] IN
    /\ engine.rev = "002"
    /\ engine' =
         IF engine.sound = "null" \/ ~engine.isPlaying
         THEN Returned(engine, "stop", "true", "none")
         ELSE IF e1.sound # "loaded" \/ ~pauseOk
         THEN Returned(e1, "stop", "false", "pause")
         ELSE Returned([e1 EXCEPT !.isPlaying = FALSE],
                       "stop", "true", "none")
    /\ engineFrame

setVolume_002(volume) ==
    /\ engine.rev = "002"
    /\ engine' =
         IF engine.sound = "null"
         THEN Returned(engine, "setVolume", "void", "none")
         ELSE Returned([engine EXCEPT
                          !.targetVolume = volume,
                          !.fadeInterval = IF engine.isPlaying THEN "to"
                                           ELSE engine.fadeInterval],
                       "setVolume", "void", "none")
    /\ engineFrame

\* cleanup().  fileOk: the FileSystem calls resolve.
cleanup_002(unloadOk, fileOk) ==
    LET e1 == [engine EXCEPT !.fadeInterval = "none"] IN
    /\ engine.rev = "002"
    /\ engine' =
         IF e1.sound # "null" /\ ~unloadOk
         THEN Returned(e1, "cleanup", "void", "unload")
         ELSE IF ~fileOk
         THEN Returned([e1 EXCEPT !.sound = "null"], "cleanup", "void", "file")
         ELSE Returned([e1 EXCEPT !.sound = "null", !.isPlaying = FALSE,
                                  !.currentVolume = 0],
                       "cleanup", "void", "none")
    /\ engineFrame

-----------------------------------------------------------------------------
(* src/app/utils/WhiteNoiseGenerator.ts *)

EngineTs ==
    [rev |-> "ts", audioContext |-> FALSE, noiseNode |-> FALSE,
     gainNode |-> FALSE, filterNode |-> FALSE, isPlaying |-> FALSE,
     volume |-> DEFAULT_VOLUME, gain |-> 0,
     call |-> NoCall, prev |-> "none"]

\* initialize() as <<engine after, returned value, failed operation>>.
\* contextOk: an AudioContext class exists and its constructor returns.
InitializeTs(e, audioModeOk, contextOk) ==
    IF ~audioModeOk THEN <<e, "false", "audioMode">>
    ELSE IF ~contextOk THEN <<e, "true", "creation">>
    ELSE <<[e EXCEPT !.audioContext = TRUE, !.filterNode = TRUE,
                     !.gainNode = TRUE, !.gain = 0], "true", "none">>

initialize_ts(audioModeOk, contextOk) ==
    LET r == InitializeTs(engine, audioModeOk, contextOk) IN
    /\ engine.rev = "ts"
    /\ engine' = Returned(r[1], "initialize", r[2], r[3])
    /\ engineFrame

\* play().  startOk: the buffer and the source node are created and started.
play_ts(audioModeOk, contextOk, startOk) ==
    LET needInit == ~engine.audioContext
        r == InitializeTs(engine, audioModeOk, contextOk)
        e1 == IF needInit THEN r[1] ELSE engine
    IN
    /\ engine.rev = "ts"
    /\ engine' =
         IF needInit /\ (r[2] = "false" \/ ~e1.audioContext)
         THEN Returned(e1, "play", "void", r[3])
         ELSE IF e1.isPlaying
         THEN Returned(e1, "play", "void", "none")
         ELSE IF ~e1.filterNode \/ ~e1.gainNode
         THEN Returned(e1, "play", "void", "nodes")
         ELSE IF ~startOk
         THEN Returned(e1, "play", "void", "creation")
         ELSE Returned([e1 EXCEPT !.noiseNode = TRUE, !.isPlaying = TRUE,
                                  !.gain = e1.volume],
                       "play", "void", "none")
    /\ engineFrame

\* stop() as the engine after it.  stopOk: noiseNode.stop() returns.
StopTs(e, stopOk) ==
    IF ~e.isPlaying \/ ~e.noiseNode \/ ~e.gainNode THEN e
    ELSE IF ~stopOk THEN [e EXCEPT !.gain = 0]
    ELSE [e EXCEPT !.gain = 0, !.noiseNode = FALSE, !.isPlaying = FALSE]

stop_ts(stopOk) ==
    /\ engine.rev = "ts"
    /\ engine' = Returned(StopTs(engine, stopOk), "stop", "void",
                          IF engine.isPlaying /\ engine.noiseNode
                             /\ engine.gainNode /\ ~stopOk
                          THEN "stop" ELSE "none")
    /\ engineFrame

setVolume_ts(volume) ==
    /\ engine.rev = "ts"
    /\ engine' = Returned([engine EXCEPT
                             !.volume = volume,
                             !.gain = IF engine.gainNode /\ engine.isPlaying
                                      THEN volume ELSE engine.gain],
                          "setVolume", "void", "none")
    /\ engineFrame

cleanup_ts(stopOk) ==
    /\ engine.rev = "ts"
    /\ engine' = Returned([StopTs(engine, stopOk) EXCEPT
                             !.gainNode = FALSE, !.audioContext = FALSE],
                          "cleanup", "void", "none")
    /\ engineFrame

-----------------------------------------------------------------------------
InitNoise ==
    /\ InitAppVars
    /\ \E size \in AppScreens : width = size[1] /\ height = size[2]
    /\ InitProbe
    /\ engine \in {Engine005, Engine002, EngineTs}
    /\ InitSeamless
    /\ InitWav
    /\ InitSetup006
    /\ InitFader
    /\ InitEffect

NextNoise ==
    \/ \E a \in BOOLEAN, b \in BOOLEAN : initialize_005(a, b)
    \/ \E a \in BOOLEAN, b \in BOOLEAN, u \in BOOLEAN, l \in BOOLEAN,
          f \in BOOLEAN : play_005(a, b, u, l, f)
    \/ \E ok \in BOOLEAN : stop_005(ok)
    \/ \E v \in VolumeLevels, ok \in BOOLEAN : setVolume_005(v, ok)
    \/ \E s \in BOOLEAN, u \in BOOLEAN : cleanup_005(s, u)
    \/ \E a \in BOOLEAN : initialize_002(a)
    \/ \E a \in BOOLEAN, u \in BOOLEAN, c \in BOOLEAN : loadSound_002(a, u, c)
    \/ \E v \in VolumeLevels, a \in BOOLEAN, u \in BOOLEAN, c \in BOOLEAN,
          p \in BOOLEAN : play_002(v, a, u, c, p)
    \/ fadeTick_002
    \/ \E ok \in BOOLEAN : stop_002(ok)
    \/ \E v \in VolumeLevels : setVolume_002(v)
    \/ \E u \in BOOLEAN, f \in BOOLEAN : cleanup_002(u, f)
    \/ \E a \in BOOLEAN, c \in BOOLEAN : initialize_ts(a, c)
    \/ \E a \in BOOLEAN, c \in BOOLEAN, s \in BOOLEAN : play_ts(a, c, s)
    \/ \E ok \in BOOLEAN : stop_ts(ok)
    \/ \E v \in VolumeLevels : setVolume_ts(v)
    \/ \E ok \in BOOLEAN : cleanup_ts(ok)

SpecNoise == InitNoise /\ [][NextNoise]_vars

-----------------------------------------------------------------------------
(* Seamless looping of the earlier AnimationScreen revision                *)
(* (src/app/components/UIComponents.tsx): two Audio.Sound instances of the *)
(* same asset, cross-faded by a timer loop, and fadeOutAndExit started by  *)
(* a correct unlock.  Time advances in ticks of TickMs; a sound that is    *)
(* playing advances its position with time and ends at the asset's         *)
(* duration (isLooping: false).  Volumes are in units of 0.07, so that     *)
(* 0.7 * (i / 10) is i units.  An awaited setTimeout resumes when its      *)
(* delay has elapsed; an awaited sound operation resumes at once or, up to *)
(* MaxLag times, one tick late.                                            *)

TickMs == 50

crossFadeDuration == 1000

CROSSFADE_STEPS == 10

EXIT_FADE_STEP_MS == 50

EXIT_ANIMATION_MS == 2000

\* Ticks an awaited sound operation may take in total.
MaxLag == 1

\* status.durationMillis of white-noise.mp3: not reported (0), and assets
\* longer than the cross-fade.
LoopDurations == {0, 1500, 2000}

Ms(t) == t \div TickMs

\* 0.7, the volume sound1 is created with.
TargetVolume == CROSSFADE_STEPS

UnloadedSound ==
    [loaded |-> FALSE, playing |-> FALSE, position |-> 0, volume |-> 0]

\* Audio.Sound.createAsync(asset, { shouldPlay: false, isLooping: false,
\* volume })
CreatedSound(volume) ==
    [loaded |-> TRUE, playing |-> FALSE, position |-> 0, volume |-> volume]

\* The AnimationScreen just mounted, loadSettings about to load the sounds.
SeamlessMounted ==
    [ load |-> "pending", slot |-> <<UnloadedSound, UnloadedSound>>,
      duration |-> 0, sound |-> FALSE, isPlaying |-> FALSE,
      loop |-> "off", loopTimer |-> 0, i |-> 0, sleep |-> 0,
      currentSound |-> 0,
      exit |-> "none", ei |-> 0, exitTimer |-> 0, lag |-> 0 ]

seamlessFrame ==
    UNCHANGED <<appVars, width, height, probe, engine, wav, setup006, fader, effect>>

\* The sound fading out (1 or 2) and the sound fading in, by currentSound.
Outgoing == seamless.currentSound + 1
Incoming == 2 - seamless.currentSound

\* The sound has played to the end of the asset.
Ended(k) ==
    /\ seamless.slot[k].loaded
    /\ ~seamless.slot[k].playing
    /\ seamless.duration > 0
    /\ seamless.slot[k].position = Ms(seamless.duration)

\* loadAndPlayWhiteNoise with setupSeamlessLooping: both sounds are created,
\* sound1 is started, and the first loop timer is set for
\* duration - crossFadeDuration.
loadAndPlayWhiteNoise(createOk, playOk, durationMillis) ==
    /\ seamless.load = "pending"
    /\ seamless' =
         IF ~createOk
           THEN [seamless EXCEPT !.load = "failed"]
         ELSE IF ~playOk
           THEN [seamless EXCEPT !.load = "failed", !.sound = TRUE,
                   !.slot = <<CreatedSound(TargetVolume), CreatedSound(0)>>]
         ELSE [seamless EXCEPT
                 !.load = "done", !.sound = TRUE, !.isPlaying = TRUE,
                 !.slot = << [CreatedSound(TargetVolume)
                                 EXCEPT !.playing = TRUE],
                             CreatedSound(0) >>,
                 !.duration = durationMillis,
                 !.loop = IF durationMillis > 0 THEN "timer" ELSE "off",
                 !.loopTimer =
                     Max(0, Ms(durationMillis - crossFadeDuration))]
    /\ seamlessFrame

\* The setTimeout callback of scheduleNextLoop starts.
scheduleNextLoop_fire ==
    /\ seamless.loop = "timer"
    /\ seamless.loopTimer = 0
    /\ seamless' = [seamless EXCEPT !.loop = "setPosition"]
    /\ seamlessFrame

\* One awaited operation of the loop on sound k; on an unloaded sound it
\* throws and the catch block ends the loop without rescheduling.
LoopOperation(k, after, next) ==
    seamless' =
      IF seamless.slot[k].loaded
        THEN [next EXCEPT !.slot[k] = after]
        ELSE [seamless EXCEPT !.loop = "dead"]

\* await incoming.setPositionAsync(0)
crossfade_setPosition ==
    /\ seamless.loop = "setPosition"
    /\ LoopOperation(Incoming,
           [seamless.slot[Incoming] EXCEPT !.position = 0],
           [seamless EXCEPT !.loop = "play"])
    /\ seamlessFrame

\* await incoming.playAsync(); then i = 0
crossfade_play ==
    /\ seamless.loop = "play"
    /\ LoopOperation(Incoming,
           [seamless.slot[Incoming] EXCEPT !.playing = TRUE],
           [seamless EXCEPT !.loop = "volumeOut", !.i = 0])
    /\ seamlessFrame

\* await outgoing.setVolumeAsync(0.7 * (1 - progress))
crossfade_volumeOut ==
    /\ seamless.loop = "volumeOut"
    /\ LoopOperation(Outgoing,
           [seamless.slot[Outgoing]
               EXCEPT !.volume = TargetVolume - seamless.i],
           [seamless EXCEPT !.loop = "volumeIn"])
    /\ seamlessFrame

\* await incoming.setVolumeAsync(0.7 * progress); then the step's sleep of
\* crossFadeDuration / 10 starts.
crossfade_volumeIn ==
    /\ seamless.loop = "volumeIn"
    /\ LoopOperation(Incoming,
           [seamless.slot[Incoming] EXCEPT !.volume = seamless.i],
           [seamless EXCEPT !.loop = "sleep",
               !.sleep = Ms(crossFadeDuration \div CROSSFADE_STEPS)])
    /\ seamlessFrame

\* The step's sleep is over: the next step, or the end of the for loop.
crossfade_nextStep ==
    /\ seamless.loop = "sleep"
    /\ seamless.sleep = 0
    /\ seamless' =
         IF seamless.i < CROSSFADE_STEPS
           THEN [seamless EXCEPT !.loop = "volumeOut", !.i = seamless.i + 1]
           ELSE [seamless EXCEPT !.loop = "stop"]
    /\ seamlessFrame

\* await outgoing.stopAsync(); currentSound flips; scheduleNextLoop().
crossfade_stop ==
    /\ seamless.loop = "stop"
    /\ LoopOperation(Outgoing,
           [seamless.slot[Outgoing] EXCEPT !.playing = FALSE, !.position = 0],
           [seamless EXCEPT
               !.loop = "timer",
               !.currentSound = 1 - seamless.currentSound,
               !.loopTimer =
                   Max(0, Ms(seamless.duration - crossFadeDuration))])
    /\ seamlessFrame

\* handleTouch completes the stored sequence and calls fadeOutAndExit with
\* the isPlaying and sound of the current render.
fadeOutAndExit ==
    /\ seamless.exit = "none"
    /\ seamless' =
         IF seamless.isPlaying /\ seamless.sound
           THEN [seamless EXCEPT !.exit = "volume", !.ei = CROSSFADE_STEPS]
           ELSE [seamless EXCEPT !.exit = "animation",
                                 !.exitTimer = Ms(EXIT_ANIMATION_MS)]
    /\ seamlessFrame

\* await sound.setVolumeAsync(0.7 * (i / 10)); then the 50 ms sleep starts.
fadeOut_volume ==
    /\ seamless.exit = "volume"
    /\ seamless' = [seamless EXCEPT !.slot[1].volume = seamless.ei,
                                    !.exit = "sleep",
                                    !.exitTimer = Ms(EXIT_FADE_STEP_MS)]
    /\ seamlessFrame

fadeOut_nextStep ==
    /\ seamless.exit = "sleep"
    /\ seamless.exitTimer = 0
    /\ seamless' =
         IF seamless.ei > 0
           THEN [seamless EXCEPT !.exit = "volume", !.ei = seamless.ei - 1]
           ELSE [seamless EXCEPT !.exit = "stop1"]
    /\ seamlessFrame

\* await sound.stopAsync()
fadeOut_stop1 ==
    /\ seamless.exit = "stop1"
    /\ seamless' = [seamless EXCEPT !.slot[1].playing = FALSE,
                                    !.slot[1].position = 0,
                                    !.exit = "unload1"]
    /\ seamlessFrame

\* await sound.unloadAsync()
fadeOut_unload1 ==
    /\ seamless.exit = "unload1"
    /\ seamless' = [seamless EXCEPT !.slot[1] = UnloadedSound,
                                    !.exit = "stop2"]
    /\ seamlessFrame

\* await sound2.stopAsync()
fadeOut_stop2 ==
    /\ seamless.exit = "stop2"
    /\ seamless' = [seamless EXCEPT !.slot[2].playing = FALSE,
                                    !.slot[2].position = 0,
                                    !.exit = "unload2"]
    /\ seamlessFrame

\* await sound2.unloadAsync(); setIsPlaying(false); setSound(null);
\* setSound2(null); the exit animation starts.
fadeOut_unload2 ==
    /\ seamless.exit = "unload2"
    /\ seamless' = [seamless EXCEPT !.slot[2] = UnloadedSound,
                                    !.isPlaying = FALSE, !.sound = FALSE,
                                    !.exit = "animation",
                                    !.exitTimer = Ms(EXIT_ANIMATION_MS)]
    /\ seamlessFrame

\* The exit animation ends: router.replace('/main-menu') unmounts the
\* screen and the effect's cleanup() runs.  It is the cleanup of the first
\* render, whose sound and sound2 are null: no sound is stopped, and the
\* loop timer is not cleared.
cleanupSeamless ==
    /\ seamless.exit = "animation"
    /\ seamless.exitTimer = 0
    /\ seamless' = [seamless EXCEPT !.exit = "done"]
    /\ seamlessFrame

LoopAwaitsSound ==
    seamless.loop \in {"setPosition", "play", "volumeOut", "volumeIn", "stop"}

ExitAwaitsSound ==
    seamless.exit \in {"volume", "stop1", "unload1", "stop2", "unload2"}

TimerDue ==
    \/ seamless.loop = "timer" /\ seamless.loopTimer = 0
    \/ seamless.loop = "sleep" /\ seamless.sleep = 0
    \/ seamless.exit \in {"sleep", "animation"} /\ seamless.exitTimer = 0

\* A sound after one tick of playback.
Played(s) ==
    IF s.loaded /\ s.playing /\ seamless.duration > 0
      THEN IF s.position + 1 >= Ms(seamless.duration)
             THEN [s EXCEPT !.playing = FALSE,
                            !.position = Ms(seamless.duration)]
             ELSE [s EXCEPT !.position = s.position + 1]
      ELSE s

\* TickMs of time pass.
Tick ==
    /\ ~TimerDue
    /\ (LoopAwaitsSound \/ ExitAwaitsSound) => seamless.lag < MaxLag
    /\ \/ seamless.loop \in {"timer", "sleep"}
       \/ seamless.exit \in {"sleep", "animation"}
       \/ LoopAwaitsSound
       \/ ExitAwaitsSound
    /\ seamless' =
         [seamless EXCEPT
            !.slot = <<Played(seamless.slot[1]), Played(seamless.slot[2])>>,
            !.loopTimer = IF seamless.loop = "timer" THEN @ - 1 ELSE @,
            !.sleep = IF seamless.loop = "sleep" THEN @ - 1 ELSE @,
            !.exitTimer = IF seamless.exit \in {"sleep", "animation"}
                            THEN @ - 1 ELSE @,
            !.lag = IF LoopAwaitsSound \/ ExitAwaitsSound THEN @ + 1 ELSE @]
    /\ seamlessFrame

InitLooping ==
    /\ InitAppVars
    /\ \E size \in AppScreens : width = size[1] /\ height = size[2]
    /\ InitProbe
    /\ InitEngine
    /\ seamless = SeamlessMounted
    /\ InitWav
    /\ InitSetup006
    /\ InitFader
    /\ InitEffect

NextLooping ==
    \/ \E c \in BOOLEAN, p \in BOOLEAN, d \in LoopDurations :
           loadAndPlayWhiteNoise(c, p, d)
    \/ scheduleNextLoop_fire
    \/ crossfade_setPosition
    \/ crossfade_play
    \/ crossfade_volumeOut
    \/ crossfade_volumeIn
    \/ crossfade_nextStep
    \/ crossfade_stop
    \/ fadeOutAndExit
    \/ fadeOut_volume
    \/ fadeOut_nextStep
    \/ fadeOut_stop1
    \/ fadeOut_unload1
    \/ fadeOut_stop2
    \/ fadeOut_unload2
    \/ cleanupSeamless
    \/ Tick

SpecLooping == InitLooping /\ [][NextLooping]_vars

-----------------------------------------------------------------------------
(* The WAV encoders: generateWhiteNoiseBuffer of src/unnamed/part_002 and  *)
(* createWhiteNoiseBuffer of src/unnamed/part_005.  The ArrayBuffer is its *)
(* byte length and the 44 header bytes (zero-filled when allocated); each  *)
(* DataView write of the header is one step, the sample loop, which only   *)
(* writes from offset 44 on, is the last one.                              *)

WAV_HEADER_SIZE == 44

\* Parameters generateWhiteNoiseBuffer(sampleRate = 44100, duration = 2)
\* is applied to.
SampleRates == {8000, 22050, 44100, 48000}
Durations == {1, 2, 3}

\* string.charCodeAt(i) for the four chunk identifiers.
CharCodes(string) ==
    CASE string = "RIFF" -> <<82, 73, 70, 70>>
      [] string = "WAVE" -> <<87, 65, 86, 69>>
      [] string = "fmt " -> <<102, 109, 116, 32>>
      [] string = "data" -> <<100, 97, 116, 97>>

\* Faulty variant: most significant byte first (littleEndian = false).
Uint32BytesBigEndian(value) ==
    << (value \div 16777216) % 256, (value \div 65536) % 256,
       (value \div 256) % 256, value % 256 >>

\* DataView.setUint32(offset, value, true) and setUint16(offset, value,
\* true): the low four (two) bytes of the value, least significant byte
\* first; higher bits are dropped.
Uint32Bytes(value) ==
    << value % 256, (value \div 256) % 256, (value \div 65536) % 256,
       (value \div 16777216) % 256 >>

Uint16Bytes(value) ==
    << value % 256, (value \div 256) % 256 >>

\* The header writes of part_002, in program order.
HeaderWrites002(sampleRate, duration) ==
    LET numSamples == sampleRate * duration
    IN  << [offset |-> 0,  bytes |-> CharCodes("RIFF")],
           [offset |-> 4,  bytes |-> Uint32Bytes(36 + numSamples * 2)],
           [offset |-> 8,  bytes |-> CharCodes("WAVE")],
           [offset |-> 12, bytes |-> CharCodes("fmt ")],
           [offset |-> 16, bytes |-> Uint32Bytes(16)],
           [offset |-> 20, bytes |-> Uint16Bytes(1)],
           [offset |-> 22, bytes |-> Uint16Bytes(1)],
           [offset |-> 24, bytes |-> Uint32Bytes(sampleRate)],
           [offset |-> 28, bytes |-> Uint32Bytes(sampleRate * 2)],
           [offset |-> 32, bytes |-> Uint16Bytes(2)],
           [offset |-> 34, bytes |-> Uint16Bytes(16)],
           [offset |-> 36, bytes |-> CharCodes("data")],
           [offset |-> 40, bytes |-> Uint32Bytes(numSamples * 2)] >>

\* The header writes of part_005, in program order.
HeaderWrites005(sampleRate, seconds) ==
    LET numChannels == 1
        bytesPerSample == 2
        numSamples == sampleRate * seconds
        dataSize == numSamples * numChannels * bytesPerSample
        fileSize == WAV_HEADER_SIZE + dataSize
    IN  << [offset |-> 0,  bytes |-> CharCodes("RIFF")],
           [offset |-> 4,  bytes |-> Uint32Bytes(fileSize - 8)],
           [offset |-> 8,  bytes |-> CharCodes("WAVE")],
           [offset |-> 12, bytes |-> CharCodes("fmt ")],
           [offset |-> 16, bytes |-> Uint32Bytes(16)],
           [offset |-> 20, bytes |-> Uint16Bytes(1)],
           [offset |-> 22, bytes |-> Uint16Bytes(numChannels)],
           [offset |-> 24, bytes |-> Uint32Bytes(sampleRate)],
           [offset |-> 28, bytes |->
               Uint32Bytes(sampleRate * numChannels * bytesPerSample)],
           [offset |-> 32, bytes |->
               Uint16Bytes(numChannels * bytesPerSample)],
           [offset |-> 34, bytes |-> Uint16Bytes(8 * bytesPerSample)],
           [offset |-> 36, bytes |-> CharCodes("data")],
           [offset |-> 40, bytes |-> Uint32Bytes(dataSize)] >>

HeaderWrites(w) ==
    IF w.rev = "002" THEN HeaderWrites002(w.sampleRate, w.duration)
                     ELSE HeaderWrites005(w.sampleRate, w.duration)

\* new ArrayBuffer(44 + numSamples * 2): zero-filled.
NewBuffer(rev, sampleRate, duration) ==
    [ rev |-> rev, sampleRate |-> sampleRate, duration |-> duration,
      byteLength |-> WAV_HEADER_SIZE + sampleRate * duration * 2,
      header |-> [k \in 0 .. WAV_HEADER_SIZE - 1 |-> 0],
      written |-> 0, samples |-> FALSE ]

wavFrame ==
    UNCHANGED <<appVars, width, height, probe, engine, seamless, setup006,
                fader, effect>>

\* The next write of the header: writeString, setUint32 or setUint16.
writeHeaderField ==
    /\ wav.rev # "none"
    /\ wav.written < Len(HeaderWrites(wav))
    /\ LET write == HeaderWrites(wav)[wav.written + 1]
       IN  wav' = [wav EXCEPT
                     !.written = @ + 1,
                     !.header = [k \in 0 .. WAV_HEADER_SIZE - 1 |->
                        IF /\ k >= write.offset
                           /\ k < write.offset + Len(write.bytes)
                          THEN write.bytes[k - write.offset + 1]
                          ELSE wav.header[k]]]
    /\ wavFrame

\* for (let i = 0; i < numSamples; i++) view.setInt16(44 + i * 2, ...):
\* the samples follow the header, and the buffer is returned.
writeSamples ==
    /\ wav.rev # "none"
    /\ wav.written = Len(HeaderWrites(wav))
    /\ ~wav.samples
    /\ wav' = [wav EXCEPT !.samples = TRUE]
    /\ wavFrame

InitEncoder ==
    /\ InitAppVars
    /\ \E size \in AppScreens : width = size[1] /\ height = size[2]
    /\ InitProbe
    /\ InitEngine
    /\ InitSeamless
    /\ \/ \E sampleRate \in SampleRates, duration \in Durations :
              wav = NewBuffer("002", sampleRate, duration)
       \/ wav = NewBuffer("005", 44100, 3)
    /\ InitSetup006
    /\ InitFader
    /\ InitEffect

NextEncoder ==
    \/ writeHeaderField
    \/ writeSamples

SpecEncoder == InitEncoder /\ [][NextEncoder]_vars

-----------------------------------------------------------------------------
(* The onboarding screen alone, with all four corners: the screen of       *)
(* src/app/onboarding.tsx (the actions above, on tappedCorners,            *)
(* setupSequence and stSequence) or the screen of src/unnamed/part_006,    *)
(* whose state is the record setup006.  setup006.firstFour observes the    *)
(* first four corners tapped since the screen was mounted or Reset was     *)
(* pressed.  The callback of the setTimeout at part_006:64-67 is not an    *)
(* action: no reachable state schedules it (errorTimers stays 0, see       *)
(* NoErrorTimer006).                                                       *)

Mounted006(stored, completed) ==
    [ rev |-> "006", route |-> "onboarding",
      tappedCorners |-> <<>>, unlockSequence |-> <<>>, showError |-> FALSE,
      errorTimers |-> 0, stored |-> stored, completed |-> completed,
      firstFour |-> <<>> ]

setupFrame ==
    UNCHANGED <<appVars, width, height, probe, engine, seamless, wav, fader, effect>>

\* compareArrays(arr1, arr2)
compareArrays(arr1, arr2) ==
    /\ Len(arr1) = Len(arr2)
    /\ \A index \in 1 .. Len(arr1) : arr1[index] = arr2[index]

\* handleCornerTap of part_006.
handleCornerTap_006(corner) ==
    /\ setup006.rev = "006"
    /\ setup006.route = "onboarding"
    /\ LET s == setup006
           newTapped == Append(s.tappedCorners, corner)
           observed == IF Len(s.firstFour) < SEQUENCE_LENGTH
                         THEN Append(s.firstFour, corner) ELSE s.firstFour
       IN  setup006' =
             IF Len(s.tappedCorners) = SEQUENCE_LENGTH /\ s.showError
               THEN [s EXCEPT !.tappedCorners = <<corner>>,
                              !.showError = FALSE, !.firstFour = observed]
             ELSE IF Len(s.tappedCorners) < SEQUENCE_LENGTH
               THEN IF Len(newTapped) = SEQUENCE_LENGTH
                      THEN IF /\ Len(s.unlockSequence) > 0
                              /\ ~compareArrays(newTapped, s.unlockSequence)
                             THEN [s EXCEPT !.tappedCorners = newTapped,
                                            !.showError = TRUE,
                                            !.errorTimers = @ + 1,
                                            !.firstFour = observed]
                             ELSE [s EXCEPT !.tappedCorners = newTapped,
                                            !.showError = FALSE,
                                            !.unlockSequence = newTapped,
                                            !.firstFour = observed]
                      ELSE [s EXCEPT !.tappedCorners = newTapped,
                                     !.showError =
                                        IF Len(s.tappedCorners) = 0
                                          THEN FALSE ELSE @,
                                     !.firstFour = observed]
             ELSE [s EXCEPT !.firstFour = observed]
    /\ setupFrame

resetSequence_006 ==
    /\ setup006.rev = "006"
    /\ setup006.route = "onboarding"
    /\ setup006' = [setup006 EXCEPT !.tappedCorners = <<>>,
                                    !.unlockSequence = <<>>,
                                    !.showError = FALSE,
                                    !.firstFour = <<>>]
    /\ setupFrame

\* confirmSequence of part_006.  outcome: "ok", or which awaited storage
\* call rejects: the first setItem, the second setItem, or a getItem of the
\* verification.
confirmSequence_006(outcome) ==
    /\ setup006.rev = "006"
    /\ setup006.route = "onboarding"
    /\ Len(setup006.unlockSequence) = SEQUENCE_LENGTH
    /\ setup006' =
         [setup006 EXCEPT
            !.stored = IF outcome = "failFirst" THEN @
                       ELSE JSONStringify(setup006.unlockSequence),
            !.completed = IF outcome \in {"failFirst", "failSecond"}
                            THEN @ ELSE TRUE,
            !.route = IF outcome = "ok" THEN "main-menu" ELSE @]
    /\ setupFrame

\* handleChangeUnlock of the main menu mounts a new onboarding screen.
handleChangeUnlock_006 ==
    /\ setup006.rev = "006"
    /\ setup006.route = "main-menu"
    /\ setup006' = Mounted006(setup006.stored, setup006.completed)
    /\ setupFrame

InitOnboarding ==
    /\ \E size \in AppScreens : width = size[1] /\ height = size[2]
    /\ InitProbe
    /\ InitEngine
    /\ InitSeamless
    /\ InitWav
    /\ InitFader
    /\ InitEffect
    /\ stSequence = Null
    /\ stCompleted = FALSE
    /\ sessions = 0
    /\ tappedCorners = <<>>
    /\ setupSequence = <<>>
    /\ unlockSequence = AnimationDefaults.unlockSequence
    /\ currentSequence = AnimationDefaults.currentSequence
    /\ wrongSequenceIndicator = AnimationDefaults.wrongSequenceIndicator
    /\ isPlaying = AnimationDefaults.isPlaying
    /\ settingsLoading = 0
    /\ soundRef = "none"
    /\ sequenceTimeout = 0
    /\ indicatorTimers = 0
    /\ sleepTimers = 0
    /\ fading = "none"
    /\ staleExits = 0
    /\ lastEvent = "none"
    /\ \/ route = "onboarding" /\ InitSetup006
       \/ route = "index" /\ setup006 = Mounted006(Null, FALSE)

NextOnboarding ==
    \/ \E corner \in Corner : handleCornerTap(corner)
    \/ resetSequence
    \/ \E outcome \in {"ok", "failFirst", "failSecond"} :
           confirmSequence(outcome)
    \/ route = "main-menu" /\ handleChangeUnlock
    \/ \E corner \in Corner : handleCornerTap_006(corner)
    \/ resetSequence_006
    \/ \E outcome \in {"ok", "failFirst", "failSecond", "failVerify"} :
           confirmSequence_006(outcome)
    \/ handleChangeUnlock_006

SpecOnboarding == InitOnboarding /\ [][NextOnboarding]_vars

-----------------------------------------------------------------------------
(***************************************************************************)
(* The fades of the noise engines, step by step (variable fader).  A fade  *)
(* is a timer-driven loop of FADE_STEPS volume writes, one every           *)
(* FADE_STEP_MS: the async for loop of WhiteNoiseGenerator.ts, the         *)
(* setInterval callbacks of part_002 and part_005.  FadeTick lets          *)
(* FADE_STEP_MS pass: every sleeping loop and every live interval becomes  *)
(* due.  The engines' methods are called between timer events.  Every fade *)
(* gets an identity when it starts; lastWriter, passed and interleaved     *)
(* observe the order in which the fades write the volume.                  *)
(***************************************************************************)

\* steps = 20 (WhiteNoiseGenerator.ts), fadeSteps = 20 (part_002),
\* steps = 20 (part_005)
FADE_STEPS == 20

\* stepTime = fadeTime / steps, fadeStepDuration, duration / steps
FADE_STEP_MS == 50

\* Fades started in one run.
MaxFades == 2

faderFrame ==
    UNCHANGED <<appVars, width, height, probe, engine, seamless, wav,
                setup006, effect>>

\* Fade f writes the volume: it interleaves when another fade has written
\* since f's previous write.
Wrote(fd, f) ==
    [fd EXCEPT !.lastWriter = f,
               !.passed = fd.passed \cup ({fd.lastWriter} \ {0, f}),
               !.interleaved = fd.interleaved \/ f \in fd.passed]

\* WhiteNoiseGenerator.ts after initialize() created the AudioContext, the
\* filter and the gain node.  volume is in tenths, gain in two-hundredths
\* ((i / steps) * volume is i * volume); loops holds the fadeIn and fadeOut
\* for loops in flight, in the order of their pending setTimeout.
FaderTs ==
    [rev |-> "ts", audioContext |-> TRUE, gainNode |-> TRUE,
     noiseNode |-> FALSE, isPlaying |-> FALSE,
     volume |-> DEFAULT_VOLUME, gain |-> 0, loops |-> <<>>,
     started |-> 0,
     lastWriter |-> 0, passed |-> {}, interleaved |-> FALSE]

\* No timer of a fade is due.
NoLoopDue == \A k \in 1 .. Len(fader.loops) : fader.loops[k].sleep > 0

\* A for loop of fadeIn or fadeOut enters its first iteration: the gain is
\* written in the caller's turn, then the loop sleeps.
StartLoop(fd, kind, call) ==
    LET id == fd.started + 1
        i  == IF kind = "in" THEN 0 ELSE FADE_STEPS
        w  == Wrote([fd EXCEPT !.gain = i * fd.volume], id)
    IN  [w EXCEPT !.started = id,
                  !.loops = Append(fd.loops,
                                   [id |-> id, kind |-> kind, i |-> i,
                                    sleep |-> 1, call |-> call])]

\* play(): initialize() when the context is gone, nothing when already
\* playing, else a new source node is started and fadeIn awaited.
ts_play ==
    LET f0 == IF fader.audioContext THEN fader
              ELSE [fader EXCEPT !.audioContext = TRUE, !.gainNode = TRUE,
                                 !.gain = 0]
        f1 == [f0 EXCEPT !.noiseNode = TRUE, !.isPlaying = TRUE]
    IN  /\ fader.rev = "ts"
        /\ NoLoopDue
        /\ fader.started < MaxFades
        /\ fader' = IF f0.isPlaying \/ ~f0.gainNode THEN f0
                    ELSE StartLoop(f1, "in", "play")
        /\ faderFrame

\* The rest of stop() after fadeOut: noiseNode.stop() throws into the
\* catch when the node is null.
AfterFadeOutTs(fd) ==
    IF fd.noiseNode
    THEN [fd EXCEPT !.noiseNode = FALSE, !.isPlaying = FALSE]
    ELSE fd

\* The rest of cleanup() after stop().
AfterStopTs(fd) == [fd EXCEPT !.gainNode = FALSE, !.audioContext = FALSE]

\* stop(): returns at once unless playing, else awaits fadeOut.
ts_stop ==
    /\ fader.rev = "ts"
    /\ NoLoopDue
    /\ fader.started < MaxFades
    /\ fader' = IF ~fader.isPlaying \/ ~fader.noiseNode \/ ~fader.gainNode
                THEN fader
                ELSE StartLoop(fader, "out", "stop")
    /\ faderFrame

\* setVolume(volume)
ts_setVolume(volume) ==
    /\ fader.rev = "ts"
    /\ NoLoopDue
    /\ fader' = IF fader.gainNode /\ fader.isPlaying
                THEN [fader EXCEPT !.volume = volume,
                                   !.gain = FADE_STEPS * volume]
                ELSE [fader EXCEPT !.volume = volume]
    /\ faderFrame

\* cleanup(): awaits stop(), then drops the gain node and the context.
ts_cleanup ==
    /\ fader.rev = "ts"
    /\ NoLoopDue
    /\ fader.started < MaxFades
    /\ fader' = IF ~fader.isPlaying \/ ~fader.noiseNode \/ ~fader.gainNode
                THEN AfterStopTs(fader)
                ELSE StartLoop(fader, "out", "cleanup")
    /\ faderFrame

\* The setTimeout of the first due loop fires: the next iteration writes
\* the gain and sleeps again (a TypeError when the gain node or the context
\* is gone ends the loop in the caller's catch), or the loop is over and
\* its caller goes on.
ts_fadeLoop ==
    LET l     == fader.loops[1]
        i     == IF l.kind = "in" THEN l.i + 1 ELSE l.i - 1
        over  == i > FADE_STEPS \/ i < 0
        rest  == [fader EXCEPT !.loops = Tail(fader.loops)]
        next  == [rest EXCEPT !.gain = i * fader.volume,
                              !.loops = Append(Tail(fader.loops),
                                               [l EXCEPT !.i = i,
                                                         !.sleep = 1])]
        ended == IF l.kind = "in" THEN rest ELSE AfterFadeOutTs(rest)
        threw == rest
    IN  /\ fader.rev = "ts"
        /\ Len(fader.loops) > 0
        /\ l.sleep = 0
        /\ fader' =
             IF ~over
             THEN IF fader.gainNode /\ fader.audioContext
                  THEN Wrote(next, l.id)
                  ELSE IF l.call = "cleanup" THEN AfterStopTs(threw)
                       ELSE threw
             ELSE IF l.call = "cleanup" THEN AfterStopTs(ended)
                  ELSE ended
        /\ faderFrame

\* Volume units per tenth.  Every fade divides a volume by FADE_STEPS once,
\* so the volumes of a run of MaxFades fades are whole numbers of units.
RECURSIVE Power(_, _)
Power(b, n) == IF n = 0 THEN 1 ELSE b * Power(b, n - 1)

TenthUnits == Power(FADE_STEPS, MaxFades)

Level(volume) == volume * TenthUnits

Abs(x) == IF x < 0 THEN 0 - x ELSE x

\* setInterval(callback, 50) of the fade just started.  The record keeps
\* the variables the callback closes over (volumeStep, the target or start
\* volume, currentStep); live is false once the interval is cleared.
NewInterval(fd, kind, volumeStep, target) ==
    [fd EXCEPT !.started = fd.started + 1,
               !.intervals = fd.intervals \cup
                   {[id |-> fd.started + 1, kind |-> kind,
                     volumeStep |-> volumeStep, target |-> target,
                     currentStep |-> 0, live |-> TRUE, due |-> FALSE]}]

\* clearInterval(id); clearing 0 (null) clears nothing.
ClearInterval(fd, id) ==
    [fd EXCEPT !.intervals =
         {IF t.id = id THEN [t EXCEPT !.live = FALSE, !.due = FALSE] ELSE t :
            t \in fd.intervals}]

\* The intervals that are set and not cleared.
LiveIntervals(fd) == {t \in fd.intervals : t.live}

\* The interval of fade id.
Interval(fd, id) == CHOOSE t \in fd.intervals : t.id = id

\* No interval callback is due.
NoIntervalDue == \A t \in fader.intervals : ~t.due

\* part_002 after loadSound(): the sound is created with volume 0 and not
\* playing.  Volumes are in units; fadeInterval is the id of the interval
\* the field holds (0 for null); inflight holds the interval callbacks
\* awaiting setVolumeAsync; awaiting holds the fade-outs whose promise a
\* stop() awaits.
Fader002 ==
    [rev |-> "002", sound |-> TRUE, isPlaying |-> FALSE,
     currentVolume |-> Level(DEFAULT_VOLUME),
     targetVolume |-> Level(DEFAULT_VOLUME), soundVolume |-> 0,
     fadeInterval |-> 0, intervals |-> {}, inflight |-> <<>>,
     awaiting |-> {}, started |-> 0, lag |-> 0,
     lastWriter |-> 0, passed |-> {}, interleaved |-> FALSE]

\* fadeIn()
FadeIn002(fd) ==
    LET f1 == [ClearInterval(fd, fd.fadeInterval)
                 EXCEPT !.currentVolume = 0]
        f2 == NewInterval(f1, "in", fd.targetVolume \div FADE_STEPS, 0)
    IN  [f2 EXCEPT !.fadeInterval = f2.started]

\* fadeOut(), whose promise the calling stop() awaits.
FadeOut002(fd) ==
    LET f1 == ClearInterval(fd, fd.fadeInterval)
        f2 == NewInterval(f1, "out", fd.currentVolume \div FADE_STEPS, 0)
    IN  [f2 EXCEPT !.fadeInterval = f2.started,
                   !.awaiting = fd.awaiting \cup {f2.started}]

\* fadeToVolume(targetVolume)
FadeToVolume002(fd, targetVolume) ==
    LET f1 == ClearInterval(fd, fd.fadeInterval)
        f2 == NewInterval(f1, "to",
                          (targetVolume - fd.currentVolume) \div FADE_STEPS,
                          targetVolume)
    IN  [f2 EXCEPT !.fadeInterval = f2.started]

\* play(volume): loadSound() when there is no sound, playAsync unless
\* playing, then fadeIn().
p002_play(volume) ==
    LET f0 == IF fader.sound THEN fader
              ELSE [fader EXCEPT !.sound = TRUE, !.soundVolume = 0]
        f1 == [f0 EXCEPT !.targetVolume = Level(volume),
                         !.isPlaying = TRUE]
    IN  /\ fader.rev = "002"
        /\ NoIntervalDue
        /\ fader.started < MaxFades
        /\ fader' = FadeIn002(f1)
        /\ faderFrame

\* stop(): returns at once unless playing, else awaits fadeOut().
p002_stop ==
    /\ fader.rev = "002"
    /\ NoIntervalDue
    /\ fader.started < MaxFades
    /\ fader' = IF ~fader.sound \/ ~fader.isPlaying THEN fader
                ELSE FadeOut002(fader)
    /\ faderFrame

\* setVolume(volume)
p002_setVolume(volume) ==
    LET f1 == [fader EXCEPT !.targetVolume = Level(volume)] IN
    /\ fader.rev = "002"
    /\ NoIntervalDue
    /\ fader.started < MaxFades
    /\ fader' = IF ~fader.sound THEN fader
                ELSE IF fader.isPlaying
                     THEN FadeToVolume002(f1, Level(volume))
                     ELSE f1
    /\ faderFrame

\* cleanup()
p002_cleanup ==
    /\ fader.rev = "002"
    /\ NoIntervalDue
    /\ fader' = [ClearInterval(fader, fader.fadeInterval)
                   EXCEPT !.fadeInterval = 0, !.sound = FALSE,
                          !.isPlaying = FALSE, !.currentVolume = 0]
    /\ faderFrame

\* if (this.fadeInterval) { clearInterval(this.fadeInterval);
\*                          this.fadeInterval = null; }
ClearField002(fd) ==
    [ClearInterval(fd, fd.fadeInterval) EXCEPT !.fadeInterval = 0]

\* The promise of fade-out t resolves: the stop() awaiting it pauses the
\* sound (a TypeError into its catch when the sound is null).
Resolve002(fd, t) ==
    IF t.id \notin fd.awaiting THEN fd
    ELSE [fd EXCEPT !.awaiting = fd.awaiting \ {t.id},
                    !.isPlaying = IF fd.sound THEN FALSE ELSE fd.isPlaying]

\* An interval callback after its awaited setVolumeAsync.
AfterWrite002(fd, t) ==
    IF t.kind = "in"
    THEN IF fd.currentVolume >= fd.targetVolume THEN ClearField002(fd)
         ELSE fd
    ELSE IF t.kind = "out"
    THEN IF fd.currentVolume <= 0 THEN Resolve002(ClearField002(fd), t)
         ELSE fd
    ELSE IF Abs(fd.currentVolume - t.target) < Abs(t.volumeStep)
         THEN LET f1 == [fd EXCEPT !.currentVolume = t.target]
                  f2 == IF fd.sound
                        THEN Wrote([f1 EXCEPT !.soundVolume = t.target],
                                   t.id)
                        ELSE f1
              IN  ClearField002(f2)
         ELSE fd

\* Full volumes the drifting currentVolume of a fadeToVolume is followed
\* beyond the range 0 .. 1.
MaxDrift == 1

\* A due interval fires: the callback moves currentVolume one step and
\* awaits setVolumeAsync (no await when the sound is null; a volume
\* outside 0 .. 1 is rejected with a RangeError that ends the callback).
\* currentStep observes how often the interval has fired, up to
\* FADE_STEPS + 1.
p002_intervalFires ==
    /\ fader.rev = "002"
    /\ fader.currentVolume >= 0 - MaxDrift * Level(10)
    /\ fader.currentVolume <= (1 + MaxDrift) * Level(10)
    /\ \E t \in fader.intervals :
        LET volume == IF t.kind = "in"
                      THEN Min(fader.currentVolume + t.volumeStep,
                               fader.targetVolume)
                      ELSE IF t.kind = "out"
                      THEN Max(fader.currentVolume - t.volumeStep, 0)
                      ELSE fader.currentVolume + t.volumeStep
            f1 == [fader EXCEPT
                     !.currentVolume = volume,
                     !.intervals = (fader.intervals \ {t}) \cup
                         {[t EXCEPT !.due = FALSE,
                                    !.currentStep =
                                        Min(t.currentStep + 1,
                                            FADE_STEPS + 1)]}]
        IN  /\ t.due
            /\ fader' =
                 IF ~fader.sound THEN AfterWrite002(f1, t)
                 ELSE IF volume < 0 \/ volume > Level(10) THEN f1
                 ELSE Wrote([f1 EXCEPT !.soundVolume = volume,
                                       !.inflight = Append(fader.inflight,
                                                           t.id)],
                            t.id)
            /\ faderFrame

\* The oldest awaited setVolumeAsync resolves and its callback goes on.
p002_intervalResumes ==
    /\ fader.rev = "002"
    /\ Len(fader.inflight) > 0
    /\ fader' = AfterWrite002([fader EXCEPT !.inflight = Tail(fader.inflight)],
                              Interval(fader, Head(fader.inflight)))
    /\ faderFrame

\* part_005 after initialize(): the buffer exists, no sound yet.  sound is
\* "null", "loaded", or "unloaded" while this.sound still refers to a sound
\* whose unloadAsync has been issued.  volume is in tenths, soundVolume in
\* units.  cleanup is the await cleanup() is suspended at.  threw observes
\* an interval callback whose setVolumeAsync was rejected by an unloaded
\* sound.
Fader005 ==
    [rev |-> "005", sound |-> "null", isPlaying |-> FALSE,
     volume |-> DEFAULT_VOLUME, soundVolume |-> 0,
     whiteNoiseBuffer |-> TRUE, fadeInterval |-> 0, fadeOutInterval |-> 0,
     intervals |-> {}, inflight |-> <<>>, awaiting |-> {},
     cleanup |-> "none", threw |-> FALSE, started |-> 0, lag |-> 0,
     lastWriter |-> 0, passed |-> {}, interleaved |-> FALSE]

\* if (this.fadeOutInterval) { clearInterval(this.fadeOutInterval);
\*                             this.fadeOutInterval = null; }
ClearField005(fd) ==
    [ClearInterval(fd, fd.fadeOutInterval) EXCEPT !.fadeOutInterval = 0]

\* fadeIn(): the volume is set to 0, then the interval is created.
FadeIn005(fd) ==
    LET f1 == [ClearField005(fd) EXCEPT !.soundVolume = 0]
        f2 == NewInterval(f1, "in", 0, 0)
    IN  [f2 EXCEPT !.fadeOutInterval = f2.started,
                   !.awaiting = fd.awaiting \cup {f2.started}]

\* fadeOut(): startVolume is the volume getStatusAsync reports.
FadeOut005(fd) ==
    LET f1 == ClearField005(fd)
        f2 == NewInterval(f1, "out", 0, fd.soundVolume)
    IN  [f2 EXCEPT !.fadeOutInterval = f2.started,
                   !.awaiting = fd.awaiting \cup {f2.started}]

\* play(): initialize() when the buffer is gone, nothing when playing, else
\* a new sound is loaded with shouldPlay and volume 0, and fadeIn awaited.
p005_play ==
    LET f1 == [fader EXCEPT !.whiteNoiseBuffer = TRUE, !.sound = "loaded",
                            !.soundVolume = 0, !.isPlaying = TRUE]
    IN  /\ fader.rev = "005"
        /\ NoIntervalDue
        /\ fader.started < MaxFades
        /\ fader' = IF fader.isPlaying
                    THEN [fader EXCEPT !.whiteNoiseBuffer = TRUE]
                    ELSE FadeIn005(f1)
        /\ faderFrame

\* stop(): returns at once unless playing, else awaits fadeOut().
p005_stop ==
    /\ fader.rev = "005"
    /\ NoIntervalDue
    /\ fader.started < MaxFades
    /\ fader' = IF ~fader.isPlaying \/ fader.sound = "null" THEN fader
                ELSE FadeOut005(fader)
    /\ faderFrame

\* setVolume(volume): written to the sound at once when playing.
p005_setVolume(volume) ==
    /\ fader.rev = "005"
    /\ NoIntervalDue
    /\ fader' = IF fader.sound = "loaded" /\ fader.isPlaying
                THEN [fader EXCEPT !.volume = volume,
                                   !.soundVolume = Level(volume)]
                ELSE [fader EXCEPT !.volume = volume]
    /\ faderFrame

\* if (this.sound) { await this.sound.unloadAsync(); ... } of cleanup(), up
\* to the await; without a sound cleanup() ends.
CleanupUnloads005(fd) ==
    IF fd.sound = "null"
    THEN [fd EXCEPT !.whiteNoiseBuffer = FALSE, !.cleanup = "none"]
    ELSE [fd EXCEPT !.sound = "unloaded", !.cleanup = "unloading"]

\* cleanup() up to its first await: this.fadeInterval is cleared (no fade
\* ever sets that field), stopAsync is awaited when playing.
p005_cleanup ==
    LET f1 == [ClearInterval(fader, fader.fadeInterval)
                 EXCEPT !.fadeInterval = 0]
    IN  /\ fader.rev = "005"
        /\ NoIntervalDue
        /\ fader.cleanup = "none"
        /\ fader' = IF fader.isPlaying /\ fader.sound # "null"
                    THEN [f1 EXCEPT !.cleanup = "stopping"]
                    ELSE CleanupUnloads005(f1)
        /\ faderFrame

\* The await cleanup() is suspended at resolves.
p005_cleanupResumes ==
    /\ fader.rev = "005"
    /\ fader.cleanup # "none"
    /\ fader' =
         IF fader.cleanup = "stopping"
         THEN CleanupUnloads005([fader EXCEPT !.isPlaying = FALSE])
         ELSE [fader EXCEPT !.sound = "null", !.whiteNoiseBuffer = FALSE,
                            !.cleanup = "none"]
    /\ faderFrame

\* The promise of fade t resolves.  The stop() awaiting a fade-out stops and
\* unloads the sound; on a sound that is gone it ends in its catch, with
\* the same assignments.
Resolve005(fd, t) ==
    IF t.id \notin fd.awaiting THEN fd
    ELSE IF t.kind = "in"
    THEN [fd EXCEPT !.awaiting = fd.awaiting \ {t.id}]
    ELSE [fd EXCEPT !.awaiting = fd.awaiting \ {t.id},
                    !.sound = "null", !.isPlaying = FALSE]

\* An interval callback after its awaited setVolumeAsync.
AfterWrite005(fd, t) ==
    IF t.currentStep >= FADE_STEPS
    THEN Resolve005(ClearField005(fd), t)
    ELSE fd

\* A due interval fires: the callback counts its step and awaits
\* setVolumeAsync.  There is no await when this.sound is null; the rest of
\* the callback is skipped when the sound is unloaded and rejects the call.
p005_intervalFires ==
    /\ fader.rev = "005"
    /\ \E t \in fader.intervals :
        LET t1 == [t EXCEPT !.currentStep = t.currentStep + 1,
                            !.due = FALSE]
            newVolume ==
                IF t.kind = "in"
                THEN Min((t1.currentStep * Level(fader.volume))
                            \div FADE_STEPS, Level(fader.volume))
                ELSE Max((t.target * (FADE_STEPS - t1.currentStep))
                            \div FADE_STEPS, 0)
            f1 == [fader EXCEPT
                     !.intervals = (fader.intervals \ {t}) \cup {t1}]
        IN  /\ t.due
            /\ fader' =
                 IF fader.sound = "loaded"
                 THEN Wrote([f1 EXCEPT !.soundVolume = newVolume,
                                       !.inflight = Append(fader.inflight,
                                                           t.id)],
                            t.id)
                 ELSE IF fader.sound = "unloaded"
                 THEN [f1 EXCEPT !.threw = TRUE]
                 ELSE AfterWrite005(f1, t1)
            /\ faderFrame

\* The oldest awaited setVolumeAsync resolves and its callback goes on.
p005_intervalResumes ==
    /\ fader.rev = "005"
    /\ Len(fader.inflight) > 0
    /\ fader' = AfterWrite005([fader EXCEPT !.inflight = Tail(fader.inflight)],
                              Interval(fader, Head(fader.inflight)))
    /\ faderFrame

\* An awaited sound operation is pending.
FadeAwaitsSound ==
    \/ fader.rev \in {"002", "005"} /\ Len(fader.inflight) > 0
    \/ fader.rev = "005" /\ fader.cleanup # "none"

\* FADE_STEP_MS pass: every sleeping loop and every live interval is due.
\* An awaited sound operation has resolved by then, or, up to MaxLag times,
\* is still pending.
FadeTick ==
    /\ fader.rev \in {"ts", "002", "005"}
    /\ IF fader.rev = "ts"
       THEN /\ Len(fader.loops) > 0
            /\ NoLoopDue
            /\ fader' = [fader EXCEPT
                           !.loops = [k \in 1 .. Len(fader.loops) |->
                                        [fader.loops[k] EXCEPT !.sleep = 0]]]
       ELSE /\ LiveIntervals(fader) # {}
            /\ NoIntervalDue
            /\ FadeAwaitsSound => fader.lag < MaxLag
            /\ fader' = [fader EXCEPT
                           !.intervals = {[t EXCEPT !.due = t.live] :
                                            t \in fader.intervals},
                           !.lag = IF FadeAwaitsSound THEN fader.lag + 1
                                   ELSE fader.lag]
    /\ faderFrame

InitFades ==
    /\ InitAppVars
    /\ \E size \in AppScreens : width = size[1] /\ height = size[2]
    /\ InitProbe
    /\ InitEngine
    /\ InitSeamless
    /\ InitWav
    /\ InitSetup006
    /\ fader \in {FaderTs, Fader002, Fader005}
    /\ InitEffect

NextFades ==
    \/ ts_play
    \/ ts_stop
    \/ \E volume \in VolumeLevels : ts_setVolume(volume)
    \/ ts_cleanup
    \/ ts_fadeLoop
    \/ \E volume \in VolumeLevels : p002_play(volume)
    \/ p002_stop
    \/ \E volume \in VolumeLevels : p002_setVolume(volume)
    \/ p002_cleanup
    \/ p002_intervalFires
    \/ p002_intervalResumes
    \/ p005_play
    \/ p005_stop
    \/ \E volume \in VolumeLevels : p005_setVolume(volume)
    \/ p005_cleanup
    \/ p005_cleanupResumes
    \/ p005_intervalFires
    \/ p005_intervalResumes
    \/ FadeTick

SpecFades == InitFades /\ [][NextFades]_vars

-----------------------------------------------------------------------------
(* Calls in flight of AudioManager and WhiteNoiseGenerator of              *)
(* src/unnamed/part_005, await by await.  Every call is an async function: *)
(* it runs up to its next await, and other calls run before it resumes.    *)
(* sounds holds the state of every Audio.Sound created ("loading",         *)
(* "playing", "stopped", "unloaded"), sound the one this.sound refers to   *)
(* (0 for null).  A fade is one await: it ends when its interval is still  *)
(* the one this.fadeOutInterval holds and its last setVolumeAsync is not   *)
(* rejected.  The sound operations themselves succeed on a loaded sound.   *)

\* Calls issued in one behaviour.
MaxCalls == 3

\* After AudioManager.initialize(): the buffer exists, nothing plays.
\* lastCall, direct and overlapped observe the calls made: the last
\* AudioManager call, whether the generator was called past the
\* AudioManager, and whether a call was made with another one in flight.
Manager005 ==
    [rev |-> "manager", mgrPlaying |-> FALSE, isPlaying |-> FALSE,
     sound |-> 0, sounds |-> <<>>, whiteNoiseBuffer |-> TRUE,
     fadeOutInterval |-> 0, calls |-> {}, issued |-> 0,
     lastCall |-> "none", direct |-> FALSE, overlapped |-> FALSE]

\* The call the next issue starts: op is "play", "stop" or "cleanup", mgr
\* tells that AudioManager made it, snd is the sound its pending operation
\* was issued on.
NewCall(fd, op, mgr) ==
    [id |-> fd.issued, op |-> op, mgr |-> mgr, pc |-> "begin", snd |-> 0]

\* The call is suspended at its await.
Suspended(fd, c) ==
    [fd EXCEPT !.calls = {d \in fd.calls : d.id # c.id} \cup {c}]

\* The call returns; startWhiteNoise / stopWhiteNoise then assign
\* this.isPlaying of the AudioManager.
Returns(fd, c, playing) ==
    [fd EXCEPT !.calls = {d \in fd.calls : d.id # c.id},
               !.mgrPlaying = IF c.mgr THEN playing ELSE fd.mgrPlaying]

\* The sound is loaded (an operation on it is not rejected).
Loaded(fd, s) ==
    s # 0 /\ fd.sounds[s] \in {"playing", "stopped"}

\* unloadAsync() is called on sound s: a loaded sound is unloaded from the
\* call on, a sound that is not loaded (still loading) is left as it is.
Unloaded(fd, s) ==
    IF Loaded(fd, s) THEN [fd EXCEPT !.sounds[s] = "unloaded"] ELSE fd

\* play(): this.sound = new Audio.Sound(); await this.sound.loadAsync(...)
PlayLoads(fd, c) ==
    LET n == Len(fd.sounds) + 1 IN
    Suspended([fd EXCEPT !.sounds = Append(fd.sounds, "loading"),
                         !.sound = n],
              [c EXCEPT !.pc = "load", !.snd = n])

\* play() from the isPlaying test to its next await.
PlayChecks(fd, c) ==
    IF fd.isPlaying THEN Returns(fd, c, TRUE)
    ELSE IF fd.sound # 0
    THEN Suspended(Unloaded(fd, fd.sound),
                   [c EXCEPT !.pc = "unload", !.snd = fd.sound])
    ELSE PlayLoads(fd, c)

\* play() up to its first await.
PlayBegins(fd, c) ==
    IF ~fd.whiteNoiseBuffer
    THEN Suspended(fd, [c EXCEPT !.pc = "initialize"])
    ELSE PlayChecks(fd, c)

\* play() after loadAsync: the sound plays (shouldPlay), isPlaying is set
\* and fadeIn() starts; a setVolumeAsync(0) rejected by this.sound ends
\* fadeIn() in its catch.
PlayAfterLoad(fd, c) ==
    LET f1 == [fd EXCEPT !.sounds[c.snd] = "playing", !.isPlaying = TRUE]
    IN  IF f1.sound = 0 THEN Returns(f1, c, TRUE)
        ELSE IF ~Loaded(f1, f1.sound)
        THEN Returns([f1 EXCEPT !.fadeOutInterval = 0], c, TRUE)
        ELSE Suspended([f1 EXCEPT !.fadeOutInterval = c.id],
                       [c EXCEPT !.pc = "fadeIn"])

\* The fade the call awaits can end: its interval is the one set, and
\* this.sound is null or accepts the last setVolumeAsync.
FadeCanEnd(fd, c) ==
    /\ fd.fadeOutInterval = c.id
    /\ fd.sound = 0 \/ Loaded(fd, fd.sound)

\* stop() up to its first await.
StopBegins(fd, c) ==
    IF ~fd.isPlaying \/ fd.sound = 0 THEN Returns(fd, c, FALSE)
    ELSE Suspended([fd EXCEPT !.fadeOutInterval = c.id],
                   [c EXCEPT !.pc = "fadeOut"])

\* The catch block of stop().
StopCatch(fd, c) ==
    Returns([fd EXCEPT !.isPlaying = FALSE, !.sound = 0], c, FALSE)

\* stop() after fadeOut(): await this.sound.stopAsync()
StopAfterFadeOut(fd, c) ==
    LET f1 == [fd EXCEPT !.fadeOutInterval = 0] IN
    IF ~Loaded(f1, f1.sound) THEN StopCatch(f1, c)
    ELSE Suspended(f1, [c EXCEPT !.pc = "stopAsync", !.snd = f1.sound])

\* stop() after stopAsync(): await this.sound.unloadAsync()
StopAfterStopAsync(fd, c) ==
    LET f1 == [fd EXCEPT !.sounds[c.snd] = "stopped"] IN
    IF ~Loaded(fd, c.snd) THEN StopCatch(fd, c)
    ELSE IF f1.sound = 0 THEN StopCatch(f1, c)
    ELSE Suspended(Unloaded(f1, f1.sound),
                   [c EXCEPT !.pc = "unloadAsync", !.snd = f1.sound])

\* stop() after unloadAsync()
StopAfterUnload(fd, c) ==
    Returns([fd EXCEPT !.sound = 0, !.isPlaying = FALSE], c, FALSE)

\* cleanup() from if (this.sound) on.
CleanupUnloads(fd, c) ==
    IF fd.sound # 0
    THEN Suspended(Unloaded(fd, fd.sound),
                   [c EXCEPT !.pc = "cleanupUnload", !.snd = fd.sound])
    ELSE Returns([fd EXCEPT !.whiteNoiseBuffer = FALSE], c, FALSE)

\* cleanup() up to its first await; a rejected stopAsync ends it in its
\* catch.
CleanupBegins(fd, c) ==
    IF fd.isPlaying /\ fd.sound # 0
    THEN IF Loaded(fd, fd.sound)
         THEN Suspended(fd, [c EXCEPT !.pc = "cleanupStop",
                                      !.snd = fd.sound])
         ELSE Returns(fd, c, FALSE)
    ELSE CleanupUnloads(fd, c)

\* cleanup() after stopAsync()
CleanupAfterStop(fd, c) ==
    IF ~Loaded(fd, c.snd) THEN Returns(fd, c, FALSE)
    ELSE CleanupUnloads([fd EXCEPT !.sounds[c.snd] = "stopped",
                                   !.isPlaying = FALSE], c)

\* cleanup() after unloadAsync()
CleanupAfterUnload(fd, c) ==
    Returns([fd EXCEPT !.sound = 0, !.whiteNoiseBuffer = FALSE], c, FALSE)

\* The await the call is suspended at can resolve.
CanResume(fd, c) ==
    c.pc \in {"fadeIn", "fadeOut"} => FadeCanEnd(fd, c)

\* The call from its await to its next one.
Resumed(fd, c) ==
    CASE c.pc = "initialize" ->
            PlayChecks([fd EXCEPT !.whiteNoiseBuffer = TRUE], c)
      [] c.pc = "unload" -> PlayLoads(fd, c)
      [] c.pc = "load" -> PlayAfterLoad(fd, c)
      [] c.pc = "fadeIn" ->
            Returns([fd EXCEPT !.fadeOutInterval = 0], c, TRUE)
      [] c.pc = "fadeOut" -> StopAfterFadeOut(fd, c)
      [] c.pc = "stopAsync" -> StopAfterStopAsync(fd, c)
      [] c.pc = "unloadAsync" -> StopAfterUnload(fd, c)
      [] c.pc = "cleanupStop" -> CleanupAfterStop(fd, c)
      [] c.pc = "cleanupUnload" -> CleanupAfterUnload(fd, c)

\* A call is issued.
Issued(fd, lastCall, direct) ==
    [fd EXCEPT !.issued = fd.issued + 1, !.lastCall = lastCall,
               !.direct = direct,
               !.overlapped = fd.overlapped \/ fd.calls # {}]

managerFrame ==
    UNCHANGED <<appVars, width, height, probe, engine, seamless, wav,
                setup006, effect>>

\* AudioManager.startWhiteNoise()
startWhiteNoise ==
    LET f1 == Issued(fader, "start", fader.direct) IN
    /\ fader.rev = "manager"
    /\ fader.issued < MaxCalls
    /\ fader' = IF fader.mgrPlaying THEN f1
                ELSE PlayBegins(f1, NewCall(f1, "play", TRUE))
    /\ managerFrame

\* AudioManager.stopWhiteNoise()
stopWhiteNoise ==
    LET f1 == Issued(fader, "stop", fader.direct) IN
    /\ fader.rev = "manager"
    /\ fader.issued < MaxCalls
    /\ fader' = IF fader.mgrPlaying
                THEN StopBegins(f1, NewCall(f1, "stop", TRUE))
                ELSE f1
    /\ managerFrame

\* WhiteNoiseGenerator.play() called by another module
generatorPlay ==
    LET f1 == Issued(fader, fader.lastCall, TRUE) IN
    /\ fader.rev = "manager"
    /\ fader.issued < MaxCalls
    /\ fader' = PlayBegins(f1, NewCall(f1, "play", FALSE))
    /\ managerFrame

\* WhiteNoiseGenerator.stop() called by another module
generatorStop ==
    LET f1 == Issued(fader, fader.lastCall, TRUE) IN
    /\ fader.rev = "manager"
    /\ fader.issued < MaxCalls
    /\ fader' = StopBegins(f1, NewCall(f1, "stop", FALSE))
    /\ managerFrame

\* WhiteNoiseGenerator.cleanup() called by another module
generatorCleanup ==
    LET f1 == Issued(fader, fader.lastCall, TRUE) IN
    /\ fader.rev = "manager"
    /\ fader.issued < MaxCalls
    /\ fader' = CleanupBegins(f1, NewCall(f1, "cleanup", FALSE))
    /\ managerFrame

\* The await of a suspended call resolves and the call goes on.
callResumes ==
    /\ fader.rev = "manager"
    /\ \E c \in fader.calls :
          /\ CanResume(fader, c)
          /\ fader' = Resumed(fader, c)
    /\ managerFrame

InitManager ==
    /\ InitAppVars
    /\ \E size \in AppScreens : width = size[1] /\ height = size[2]
    /\ InitProbe
    /\ InitEngine
    /\ InitSeamless
    /\ InitWav
    /\ InitSetup006
    /\ fader = Manager005
    /\ InitEffect

NextManager ==
    \/ startWhiteNoise
    \/ stopWhiteNoise
    \/ generatorPlay
    \/ generatorStop
    \/ generatorCleanup
    \/ callResumes

SpecManager == InitManager /\ [][NextManager]_vars

-----------------------------------------------------------------------------
(* The effect of the animation screen (src/app/animation.tsx), run by run. *)
(* Every run of the effect closes over the state of its render: init()     *)
(* reads sleepTimer and whiteNoiseEnabled from that closure, whatever      *)
(* loadSettings has set in between.  A change of a dependency runs the     *)
(* effect's cleanup and the effect again.  Time is in minutes and passes   *)
(* in steps of SleepTick while nothing else is pending; loading takes no   *)
(* time on that scale.                                                     *)

DEFAULT_SLEEP_TIMER == 30

\* type SleepTimer = 15 | 30 | 60
SleepTimerChoices == {15, 30, 60}

SleepTick == 15

\* Minutes the clock runs.
MaxMinutes == 75

\* Runs of the effect in one behaviour.
MaxRuns == 3

\* timer.toString(), as the sequence of decimal digits
RECURSIVE DigitsOf(_)
DigitsOf(n) ==
    IF n < 10 THEN <<n>> ELSE Append(DigitsOf(n \div 10), n % 10)

\* parseInt(savedTimer)
RECURSIVE parseInt(_)
parseInt(digits) ==
    IF Len(digits) = 1 THEN digits[1]
    ELSE parseInt(SubSeq(digits, 1, Len(digits) - 1)) * 10
         + digits[Len(digits)]

\* What the main menu has left under the key 'sleepTimer': nothing (the
\* empty sequence) or a choice written by handleSleepTimerChange.
SavedTimers == {<<>>} \cup {DigitsOf(timer) : timer \in SleepTimerChoices}

\* What is under the key 'whiteNoiseEnabled'.
SavedWhiteNoise == {Null, "true", "false"}

\* The dependencies of the effect that change: isPlaying, sleepTimer,
\* whiteNoiseEnabled.
Dependencies(ef) == <<ef.isPlaying, ef.sleepTimer, ef.whiteNoiseEnabled>>

\* One run of the effect with the state it closes over, init() pending.
EffectRun(ef, id) ==
    [id |-> id, sleepTimer |-> ef.sleepTimer,
     whiteNoiseEnabled |-> ef.whiteNoiseEnabled, pc |-> "init"]

\* The animation screen just mounted: state at its defaults, the effect
\* run once, init() pending.  sound tells that soundRef holds a playing
\* sound; timers are the pending sleep timers; exitAt observes the minute
\* the sleep exit started (-1 before).
AnimationMounted(savedTimer, savedWhiteNoise) ==
    [rev |-> "animation", stSleepTimer |-> savedTimer,
     stWhiteNoise |-> savedWhiteNoise,
     sleepTimer |-> DEFAULT_SLEEP_TIMER, whiteNoiseEnabled |-> TRUE,
     isPlaying |-> FALSE, sound |-> FALSE, timers |-> {}, started |-> 1,
     now |-> 0, exitAt |-> 0 - 1,
     deps |-> <<FALSE, DEFAULT_SLEEP_TIMER, TRUE>>,
     runs |-> {[id |-> 1, sleepTimer |-> DEFAULT_SLEEP_TIMER,
                whiteNoiseEnabled |-> TRUE, pc |-> "init"]}]

effectFrame ==
    UNCHANGED <<appVars, width, height, probe, engine, seamless, wav,
                setup006, fader>>

\* loadSettings: the state setters called with what the storage holds.
LoadedSettings(ef) ==
    [ef EXCEPT
       !.whiteNoiseEnabled = IF ef.stWhiteNoise # Null
                             THEN ef.stWhiteNoise = "true"
                             ELSE ef.whiteNoiseEnabled,
       !.sleepTimer = IF Len(ef.stSleepTimer) > 0
                      THEN parseInt(ef.stSleepTimer)
                      ELSE ef.sleepTimer]

\* startSleepTimer(minutes)
StartedSleepTimer(ef, id, minutes) ==
    IF minutes > 0
    THEN [ef EXCEPT !.timers = ef.timers \cup
                        {[id |-> id, minutes |-> minutes,
                          due |-> ef.now + minutes]}]
    ELSE ef

\* init() of one run of the effect, cleaned up or not: loadSettings
\* (readOk: the getItem calls resolve), then the white noise and the sleep
\* timer by the sleepTimer and whiteNoiseEnabled this run closed over.
effectInit(readOk) ==
    /\ effect.rev = "animation"
    /\ effect.exitAt < 0
    /\ \E run \in effect.runs :
          LET f1 == IF readOk THEN LoadedSettings(effect) ELSE effect
              f2 == [f1 EXCEPT
                       !.runs = (effect.runs \ {run}) \cup
                                   {[run EXCEPT !.pc = "done"]},
                       !.sound = run.whiteNoiseEnabled \/ effect.sound]
          IN  /\ run.pc = "init"
              /\ effect' = StartedSleepTimer(f2, run.id, run.sleepTimer)
    /\ effectFrame

\* A dependency has changed: the cleanup of the last run stops and unloads
\* the sound, and the effect runs again.
effectReruns ==
    /\ effect.rev = "animation"
    /\ effect.exitAt < 0
    /\ effect.deps # Dependencies(effect)
    /\ effect.started < MaxRuns
    /\ effect' = [effect EXCEPT
                    !.sound = FALSE,
                    !.deps = Dependencies(effect),
                    !.started = effect.started + 1,
                    !.runs = effect.runs \cup
                                {EffectRun(effect, effect.started + 1)}]
    /\ effectFrame

\* The playback status callback of the sound: setIsPlaying(status.isPlaying)
playbackStatus ==
    /\ effect.rev = "animation"
    /\ effect.exitAt < 0
    /\ effect.isPlaying # effect.sound
    /\ effect' = [effect EXCEPT !.isPlaying = effect.sound]
    /\ effectFrame

\* Nothing is pending but timers.
EffectSettled ==
    /\ \A run \in effect.runs : run.pc = "done"
    /\ effect.isPlaying = effect.sound
    /\ effect.deps = Dependencies(effect) \/ effect.started = MaxRuns

\* SleepTick minutes pass.
sleepTick ==
    /\ effect.rev = "animation"
    /\ effect.exitAt < 0
    /\ EffectSettled
    /\ effect.now + SleepTick <= MaxMinutes
    /\ \A timer \in effect.timers : timer.due > effect.now
    /\ effect' = [effect EXCEPT !.now = effect.now + SleepTick]
    /\ effectFrame

\* A sleep timer expires: fadeOutAndExit()
sleepTimerExpires ==
    /\ effect.rev = "animation"
    /\ effect.exitAt < 0
    /\ \E timer \in effect.timers :
          /\ timer.due <= effect.now
          /\ effect' = [effect EXCEPT !.timers = effect.timers \ {timer},
                                      !.exitAt = effect.now]
    /\ effectFrame

InitSleep ==
    /\ InitAppVars
    /\ \E size \in AppScreens : width = size[1] /\ height = size[2]
    /\ InitProbe
    /\ InitEngine
    /\ InitSeamless
    /\ InitWav
    /\ InitSetup006
    /\ InitFader
    /\ \E savedTimer \in SavedTimers, savedWhiteNoise \in SavedWhiteNoise :
          effect = AnimationMounted(savedTimer, savedWhiteNoise)

NextSleep ==
    \/ \E readOk \in BOOLEAN : effectInit(readOk)
    \/ effectReruns
    \/ playbackStatus
    \/ sleepTick
    \/ sleepTimerExpires

SpecSleep == InitSleep /\ [][NextSleep]_vars

-----------------------------------------------------------------------------
(* Properties of the unlock state machine (specification Spec)             *)

\* The corner handleTouch computes for a tap point.
TapCorner(p) == getCornerFromTouch(width, height, p[1], p[2])

\* The sequence the onboarding stored, as loadSettings would parse it.
StoredSequence == IF stSequence = Null THEN <<>> ELSE JSONParse(stSequence)

\* A step of handleTouch for the tap point p.
TouchStep(p) == handleTouch(p[1], p[2])

\* C1: the animation screen is left only for the main menu, and only by the
\* end of an exit fade; an exit fade is started only by the tap that
\* completes an accumulator equal to the stored sequence or by a sleep timer
\* that fires (the exits a left screen's sleep timers still cause included).
\* Ignored, accepted and rejected taps, the idle timeout, the indicator
\* timer and the hardware back button neither navigate nor start a fade.
C1_ExitOnlyByUnlockOrSleep ==
    [][ /\ (route = "animation" /\ route' # "animation") =>
              /\ route' = "main-menu"
              /\ lastEvent' \in {"unlocked", "exitUnlock", "exitSleep"}
              /\ (fading # "none" \/ staleExits > 0)
        /\ (route = "animation" /\ lastEvent' = "unlocked"
            /\ (route' # "animation" \/ fading' # fading)) =>
              \E p \in TapPoints(width, height) :
                  /\ TapCorner(p) # Null
                  /\ stSequence # Null
                  /\ Append(currentSequence, TapCorner(p)) = StoredSequence
                  /\ TouchStep(p)
        /\ (fading # "unlock" /\ fading' = "unlock") =>
              /\ lastEvent' = "unlocked"
              /\ currentSequence' = StoredSequence
              /\ Len(currentSequence') = SEQUENCE_LENGTH
        /\ (fading # "sleep" /\ fading' = "sleep") =>
              /\ route = "animation"
              /\ sleepTimers' = sleepTimers - 1
        /\ ( \/ \E p \in TapPoints(width, height) :
                    TouchStep(p) /\ lastEvent' # "unlocked"
             \/ SequenceTimeoutFire
             \/ IndicatorHide
             \/ hardwareBackPress ) =>
              /\ route' = route
              /\ fading' = fading
              /\ staleExits' = staleExits
      ]_vars

\* C1 happens: the screen was left by the fade the unlock tap started.
C1_Witness ==
    /\ route = "main-menu"
    /\ lastEvent = "exitUnlock"
    /\ sessions > 0

\* C2: on the animation screen, the tap that completes an accumulator equal
\* to the sequence confirmed in onboarding (the replay of that sequence from
\* an empty accumulator) always yields Unlocked.
C2_ReplayUnlocks ==
    [][ \A p \in TapPoints(width, height) :
          ( /\ route = "animation"
            /\ stCompleted
            /\ stSequence # Null
            /\ TapCorner(p) # Null
            /\ Append(currentSequence, TapCorner(p)) = StoredSequence
            /\ TouchStep(p) )
          => lastEvent' = "unlocked"
      ]_vars

\* C3: the fourth tap of four corners that differ from the stored sequence
\* in at least one position yields Rejected: the indicator is raised, the
\* accumulator is empty afterwards and the screen does not unlock.
C3_WrongSequenceRejected ==
    [][ \A p \in TapPoints(width, height) :
          ( /\ route = "animation"
            /\ stCompleted
            /\ stSequence # Null
            /\ TapCorner(p) # Null
            /\ Len(currentSequence) = SEQUENCE_LENGTH - 1
            /\ Append(currentSequence, TapCorner(p)) # StoredSequence
            /\ TouchStep(p) )
          => /\ lastEvent' = "rejected"
             /\ wrongSequenceIndicator'
             /\ currentSequence' = <<>>
             /\ fading' = fading
             /\ route' = route
      ]_vars

\* C4: the tap that completes an accumulator equal to the loaded unlock
\* sequence yields Unlocked and leaves the accumulator empty.
C4_MatchClearsAccumulator ==
    [][ \A p \in TapPoints(width, height) :
          ( /\ route = "animation"
            /\ unlockSequence # <<>>
            /\ TapCorner(p) # Null
            /\ Append(currentSequence, TapCorner(p)) = unlockSequence
            /\ TouchStep(p) )
          => /\ lastEvent' = "unlocked"
             /\ currentSequence' = <<>>
      ]_vars

\* C5: while one to three corners are accepted the idle timer of 3000 ms is
\* pending; when it fires the accumulator is cleared and TimedOut is
\* emitted; the classified tap after a timeout starts an accumulator of
\* length 1.
C5_IdleTimeout ==
    [][ /\ (route' = "animation"
            /\ Len(currentSequence') \in 1..(SEQUENCE_LENGTH - 1)) =>
              sequenceTimeout' = SEQUENCE_TIMEOUT
        /\ SequenceTimeoutFire =>
              /\ currentSequence' = <<>>
              /\ lastEvent' = "timedOut"
        /\ \A p \in TapPoints(width, height) :
              (lastEvent = "timedOut" /\ TapCorner(p) # Null /\ TouchStep(p))
              => Len(currentSequence') = 1
      ]_vars

\* C6: a tap outside every corner zone leaves the accumulator, the pending
\* idle timer and the wrong-sequence indicator (with its timers) unchanged.
C6_UnclassifiedTapIgnored ==
    [][ \A p \in TapPoints(width, height) :
          (route = "animation" /\ TapCorner(p) = Null /\ TouchStep(p))
          => /\ lastEvent' = "tapIgnored"
             /\ UNCHANGED <<currentSequence, sequenceTimeout,
                            wrongSequenceIndicator, indicatorTimers>>
      ]_vars

\* C6 happens: a tap was ignored while corners were accepted and the idle
\* timer was pending.
C6_Witness ==
    /\ route = "animation"
    /\ lastEvent = "tapIgnored"
    /\ currentSequence # <<>>
    /\ sequenceTimeout = SEQUENCE_TIMEOUT

-----------------------------------------------------------------------------
(* Properties of the hit test (specification SpecZones)                    *)

Probed == probe.x >= 0

Zone(i) == touchZones(width, height)[i]

\* The point lies in the closed square of the zone.
Covers(zone, x, y) ==
    /\ zone.x <= x /\ x <= zone.x + zone.width
    /\ zone.y <= y /\ y <= zone.y + zone.height

\* The point lies on one of the four edges of the zone.
OnEdge(zone, x, y) ==
    /\ Covers(zone, x, y)
    /\ \/ x \in {zone.x, zone.x + zone.width}
       \/ y \in {zone.y, zone.y + zone.height}

\* The point lies one pixel outside one of the four edges of the zone.
OnePixelOutside(zone, x, y) ==
    \/ /\ x \in {zone.x - Q, zone.x + zone.width + Q}
       /\ zone.y <= y /\ y <= zone.y + zone.height
    \/ /\ y \in {zone.y - Q, zone.y + zone.height + Q}
       /\ zone.x <= x /\ x <= zone.x + zone.width

\* Every zone that covers the probed point is the zone it is classified as.
ClassifiedAsEveryCoveringZone ==
    \A i \in 1..4 :
        Covers(Zone(i), probe.x, probe.y) => probe.corner = Zone(i).corner

\* The probed point is classified by inclusive edges.
ClassifiedByInclusiveEdges ==
    \A i \in 1..4 :
        /\ OnEdge(Zone(i), probe.x, probe.y) => probe.corner = Zone(i).corner
        /\ OnePixelOutside(Zone(i), probe.x, probe.y)
               => probe.corner # Zone(i).corner

\* The shorter side of the window exceeds twice the 120 px floor.
WideScreen == Min(width, height) > 2 * MIN_CORNER_PX

\* C7 (as stated): for every window size no point lies inside two zones, so
\* the corner of a point is the corner of every zone that covers it.
C7_ZonesDisjoint ==
    Probed => ClassifiedAsEveryCoveringZone

\* C7 (amended): the same for windows whose shorter side exceeds 240 px.
C7_ZonesDisjointOnWideScreens ==
    (Probed /\ WideScreen) => ClassifiedAsEveryCoveringZone

\* C7 happens: a point on the inner edge of the top-right zone of a wide
\* window was classified.
C7_Witness ==
    /\ Probed
    /\ WideScreen
    /\ probe.x = Zone(2).x
    /\ probe.corner = "TR"

\* C8 (as stated): a point on an edge of a zone is classified as that
\* zone's corner, a point one pixel outside the edge is not.
C8_InclusiveEdges ==
    Probed => ClassifiedByInclusiveEdges

\* C8 (amended): the same for windows whose shorter side exceeds 240 px.
C8_InclusiveEdgesOnWideScreens ==
    (Probed /\ WideScreen) => ClassifiedByInclusiveEdges

\* C8 happens: a point on the far edge of the top-left zone of a wide
\* window was classified as top-left.
C8_Witness ==
    /\ Probed
    /\ WideScreen
    /\ probe.x = Zone(1).x + Zone(1).width
    /\ probe.corner = "TL"

-----------------------------------------------------------------------------
(* Properties of the noise engines (specification SpecNoise)               *)

\* A step of stop() of one of the three revisions.
StopCall ==
    \E ok \in BOOLEAN : stop_005(ok) \/ stop_002(ok) \/ stop_ts(ok)

\* C9: stop() called while the engine is stopped raises no error and leaves
\* every field of the engine unchanged.
C9_StopIdempotent ==
    [][ (StopCall /\ ~engine.isPlaying) =>
            /\ EngineFields(engine') = EngineFields(engine)
            /\ engine'.call.fault = "none"
      ]_vars

\* C9 happens: stop() was called twice in a row, the second time on a
\* stopped engine that holds a loaded sound.
C9_Witness ==
    /\ engine.rev = "002"
    /\ engine.call.name = "stop"
    /\ engine.prev = "stop"
    /\ ~engine.call.wasPlaying
    /\ engine.sound = "loaded"

\* C10: after initialize(), loadSound() or play() in which the creation of
\* the buffer or of the sound failed, the call has returned false, the
\* engine is not playing and its sound reference is null.
C10_CreationFailureIsClean ==
    ( /\ engine.rev \in {"002", "005"}
      /\ engine.call.fault = "creation"
      /\ ~engine.call.wasPlaying )
    => /\ engine.call.result = "false"
       /\ ~engine.isPlaying
       /\ engine.sound = "null"

\* C14: on the animation screen the accumulator never holds more corners
\* than a stored unlock sequence has (four), whether or not the stored
\* sequence has been loaded and also after a correct unlock.
C14_AccumulatorBounded ==
    route = "animation" => Len(currentSequence) <= SEQUENCE_LENGTH

\* C15: a classified tap that leaves the accumulator shorter than the
\* loaded sequence is only appended: no unlock, no rejection, no indicator
\* and no fade, whether or not the corners entered so far match.
C15_NoEarlyComparison ==
    [][ \A p \in TapPoints(width, height) :
          ( /\ route = "animation"
            /\ TapCorner(p) # Null
            /\ Len(currentSequence) + 1 < Len(unlockSequence)
            /\ TouchStep(p) )
          => /\ lastEvent' = "tapAccepted"
             /\ currentSequence' = Append(currentSequence, TapCorner(p))
             /\ UNCHANGED <<route, wrongSequenceIndicator, indicatorTimers,
                            fading>>
      ]_vars

\* C15 happens: three corners were accepted although already the first one
\* differs from the loaded sequence.
C15_Witness ==
    /\ route = "animation"
    /\ lastEvent = "tapAccepted"
    /\ Len(unlockSequence) = SEQUENCE_LENGTH
    /\ Len(currentSequence) = 3
    /\ currentSequence[1] # unlockSequence[1]

-----------------------------------------------------------------------------
(* Properties of the onboarding screens (specification SpecOnboarding)     *)

\* part_006 never schedules its error timer.
NoErrorTimer006 ==
    setup006.rev = "006" =>
        setup006.errorTimers = 0 /\ ~setup006.showError

\* The tapped list of onboarding.tsx only changes by appending a tap while
\* it is shorter than four, or by being emptied by Reset or a new mount:
\* it is the first four taps since the last Reset.
TappedIsFirstFour ==
    \/ tappedCorners' = tappedCorners
    \/ resetSequence
    \/ handleChangeUnlock
    \/ /\ Len(tappedCorners) < 4
       /\ \E corner \in Corner :
            /\ handleCornerTap(corner)
            /\ tappedCorners' = Append(tappedCorners, corner)

\* A step of the onboarding screen in which confirmSequence has written
\* 'unlockSequence': the stored text changes, or the write succeeded and
\* the screen is left.
Writes ==
    /\ route = "onboarding"
    /\ stSequence' # Null
    /\ \/ route' = "main-menu"
       \/ IF stSequence = Null THEN TRUE ELSE stSequence' # stSequence

Writes006 ==
    /\ setup006.rev = "006"
    /\ setup006.route = "onboarding"
    /\ setup006'.stored # Null
    /\ \/ setup006'.route = "main-menu"
       \/ setup006'.completed # setup006.completed
       \/ IF setup006.stored = Null THEN TRUE
          ELSE setup006'.stored # setup006.stored

\* C13: the tapped list never holds more than four corners, and what
\* confirmSequence writes under 'unlockSequence' is a list of exactly four
\* corners, the first four taps since the last Reset, in order.
C13_StoredIsFirstFourTaps ==
    /\ [](Len(tappedCorners) <= 4)
    /\ [](setup006.rev = "006" => Len(setup006.tappedCorners) <= 4)
    /\ [][TappedIsFirstFour]_vars
    /\ [][ Writes =>
             /\ Len(JSONParse(stSequence')) = 4
             /\ \A k \in 1 .. 4 : JSONParse(stSequence')[k] \in Corner
             /\ JSONParse(stSequence') = tappedCorners ]_vars
    /\ [][ Writes006 =>
             /\ Len(JSONParse(setup006'.stored)) = 4
             /\ \A k \in 1 .. 4 : JSONParse(setup006'.stored)[k] \in Corner
             /\ JSONParse(setup006'.stored) = setup006.firstFour ]_vars

\* C13 happens: a sequence was stored, the screen was visited again, and
\* four other corners have been tapped and are ready to be confirmed.
C13_Witness ==
    /\ route = "onboarding"
    /\ stSequence # Null
    /\ JSONParse(stSequence) = <<"TL", "TR", "BL", "BR">>
    /\ tappedCorners = <<"BR", "BR", "TL", "TR">>
    /\ setupSequence = tappedCorners

-----------------------------------------------------------------------------
(* Properties of the WAV encoders (specification SpecEncoder)              *)

\* The header read back as a WAV decoder does: little-endian fields.  A
\* value of 2^31 or more, which no field of these buffers has, reads as -1.
ReadUint32(offset) ==
    IF wav.header[offset + 3] > 127 THEN 0 - 1
    ELSE wav.header[offset] + 256 * wav.header[offset + 1]
           + 65536 * wav.header[offset + 2]
           + 16777216 * wav.header[offset + 3]

ReadUint16(offset) == wav.header[offset] + 256 * wav.header[offset + 1]

ReadTag(offset) == [k \in 1 .. 4 |-> wav.header[offset + k - 1]]

BufferReturned == wav.rev # "none" /\ wav.samples

-----------------------------------------------------------------------------
(* Properties of the seamless loop (specification SpecLooping)             *)

\* The for loop of a cross-fade is running or has just ended.
Crossfading ==
    seamless.loop \in {"volumeOut", "volumeIn", "sleep", "stop"}

VolumeSum == seamless.slot[1].volume + seamless.slot[2].volume

\* No fadeOutAndExit has been started: the loop is the only writer.
LoopUndisturbed == seamless.exit = "none"

\* C11: during every cross-fade the two volumes add up to the target volume
\* before the first write and after the last one, and in between the sum is
\* never more than one fade step away from the target.
C11_CrossfadeSum ==
    /\ Crossfading =>
          /\ VolumeSum >= TargetVolume - 1
          /\ VolumeSum <= TargetVolume + 1
    /\ (seamless.loop = "volumeOut" /\ seamless.i = 0) =>
          VolumeSum = TargetVolume
    /\ seamless.loop = "stop" => VolumeSum = TargetVolume

C11_Undisturbed == LoopUndisturbed => C11_CrossfadeSum

\* The active sound still has at least the cross-fade duration to play.
FadeDurationRemains ==
    /\ seamless.slot[Outgoing].playing
    /\ Ms(seamless.duration) - seamless.slot[Outgoing].position
          >= Ms(crossFadeDuration)

\* C18: while nothing else touches the sounds, every cross-fade starts with
\* at least the fade duration of the active sound remaining, the active
\* sound has not ended before the cross-fade completes, and it never ends
\* while it waits for the next cross-fade.
C18_CrossfadeInTime ==
    /\ [][ (LoopUndisturbed /\ scheduleNextLoop_fire)
             => FadeDurationRemains ]_vars
    /\ [](LoopUndisturbed =>
             /\ Crossfading => ~Ended(Outgoing)
             /\ seamless.loop = "timer" => ~Ended(Outgoing))

\* A cross-fade completes: stopAsync of the outgoing sound has returned.
CrossfadeCompletes ==
    /\ crossfade_stop
    /\ seamless'.loop = "timer"

\* C19: after every completed cross-fade the incoming sound plays at the
\* target volume, the outgoing sound is stopped at volume 0, and the
\* active sound has changed to the other one.
C19_OneActiveSlot ==
    [][ CrossfadeCompletes =>
          /\ seamless'.slot[Incoming].playing
          /\ seamless'.slot[Incoming].volume = TargetVolume
          /\ ~seamless'.slot[Outgoing].playing
          /\ seamless'.slot[Outgoing].volume = 0
          /\ seamless'.currentSound = 1 - seamless.currentSound
          /\ seamless'.currentSound + 1 = Incoming ]_vars

\* The loop alone leaves one sound active after each cross-fade.
OneActiveSlotWhileUndisturbed ==
    [][ (LoopUndisturbed /\ CrossfadeCompletes) =>
          /\ seamless'.slot[Incoming].playing
          /\ seamless'.slot[Incoming].volume = TargetVolume
          /\ ~seamless'.slot[Outgoing].playing
          /\ seamless'.slot[Outgoing].volume = 0
          /\ seamless'.currentSound = 1 - seamless.currentSound ]_vars

\* playAsync of the incoming sound returns.
IncomingStarts ==
    /\ crossfade_play
    /\ seamless'.loop = "volumeOut"

\* C20: in every loop cycle, while nothing else touches the sounds, the
\* incoming sound is started at position 0 and volume 0 while the outgoing
\* sound is still playing.
C20_IncomingStartsSilent ==
    [][ (LoopUndisturbed /\ IncomingStarts) =>
          /\ seamless.slot[Incoming].position = 0
          /\ seamless.slot[Incoming].volume = 0
          /\ seamless.slot[Outgoing].playing ]_vars

-----------------------------------------------------------------------------
(* Properties of the fades (specification SpecFades)                       *)

\* The fades in flight: the for loops of WhiteNoiseGenerator.ts, the live
\* intervals of part_002 and part_005.
FadesInFlight ==
    IF fader.rev = "ts" THEN Len(fader.loops)
    ELSE IF fader.rev \in {"002", "005"}
    THEN Cardinality(LiveIntervals(fader))
    ELSE 0

\* C16: in part_002 and in WhiteNoiseGenerator.ts at most one fade is in
\* flight at any time (a new fade has cancelled the previous one when it
\* starts), and no fade writes the volume again after another fade has
\* written it in between.
C16_OneFadeInFlight ==
    fader.rev \in {"002", "ts"} =>
        /\ FadesInFlight <= 1
        /\ ~fader.interleaved

\* The same for part_002 alone while no awaited setVolumeAsync has taken
\* longer than a fade step.
OneFadeInFlight002 ==
    fader.rev = "002" =>
        /\ FadesInFlight <= 1
        /\ fader.lag = 0 => ~fader.interleaved

\* C17: cleanup() of part_005 has cancelled every interval when it unloads
\* the sound, and no interval callback writes to the sound after cleanup()
\* has begun to unload it.
C17_CleanupCancelsTimers ==
    fader.rev = "005" =>
        /\ fader.cleanup = "unloading" => LiveIntervals(fader) = {}
        /\ ~fader.threw

-----------------------------------------------------------------------------
(* Properties of the exit of the seamless loop (specification SpecLooping) *)

\* The sound is playing and has not reached the end of the asset.
Audible(k) == seamless.slot[k].playing /\ ~Ended(k)

\* C21: when fadeOutAndExit is about to halt a sound that is audible
\* (stopAsync on sound, then on sound2), that sound's volume has been ramped
\* down to 0.
C21_RampedBeforeHalt ==
    /\ (seamless.exit = "stop1" /\ Audible(1)) =>
           seamless.slot[1].volume = 0
    /\ (seamless.exit = "stop2" /\ Audible(2)) =>
           seamless.slot[2].volume = 0

\* sound2 is the active slot, at the target volume, when the exit halts it.
ActiveSecondSoundHalted ==
    /\ seamless.exit = "stop2"
    /\ seamless.loop = "timer"
    /\ seamless.currentSound = 1
    /\ Audible(2)
    /\ seamless.slot[2].volume = TargetVolume

-----------------------------------------------------------------------------
(* Properties of single fades (specification SpecFades)                    *)

\* The value the fade of interval t is to end at.
FadeTarget(t) ==
    IF t.kind = "in" THEN fader.targetVolume
    ELSE IF t.kind = "out" THEN 0
    ELSE t.target

\* The step ends the fade of interval t: its interval is cleared although
\* no other fade was started and cleanup() was not called.
FadeEnds(t) ==
    /\ t.live
    /\ ~Interval(fader', t.id).live
    /\ fader'.started = fader.started
    /\ fader'.sound

\* C22: in part_002 a fade's interval is cleared by its FADE_STEPS-th
\* callback at the latest (it never fires once more), and when a fade ends
\* the volume of the engine and of the sound is the fade's target, also for
\* a setVolume() to the volume the engine already has.
C22_FadesEndExactly ==
    /\ [](fader.rev = "002" =>
            \A t \in LiveIntervals(fader) : t.currentStep <= FADE_STEPS)
    /\ [][fader.rev = "002" =>
            \A t \in fader.intervals :
                FadeEnds(t) => /\ fader'.currentVolume = FadeTarget(t)
                               /\ fader'.soundVolume = FadeTarget(t)]_vars

\* The same for fades that are ended by their own callback, while no
\* awaited setVolumeAsync has taken longer than a fade step and no
\* setVolume() asked for the volume the engine already had.
FadesEndExactlyOtherwise ==
    /\ [](fader.rev = "002" =>
            \A t \in LiveIntervals(fader) :
                (fader.lag = 0 /\ (t.kind = "to" => t.volumeStep # 0)) =>
                    t.currentStep <= FADE_STEPS)
    /\ [][(fader.rev = "002" /\ fader.lag = 0) =>
            \A t \in fader.intervals :
                (FadeEnds(t) /\ fader.inflight # <<>>
                   /\ Head(fader.inflight) = t.id) =>
                      /\ fader'.currentVolume = FadeTarget(t)
                      /\ fader'.soundVolume = FadeTarget(t)]_vars

\* A fadeToVolume of step 0 is still live after FADE_STEPS + 1 callbacks,
\* none of them late.
StepZeroFadeStillLive ==
    /\ fader.rev = "002"
    /\ fader.lag = 0
    /\ \E t \in LiveIntervals(fader) :
          /\ t.kind = "to"
          /\ t.volumeStep = 0
          /\ t.currentStep > FADE_STEPS

\* The writes of fade id that are issued and not completed.
WritesInFlight(id) ==
    Cardinality({k \in 1 .. Len(fader.inflight) : fader.inflight[k] = id})

\* C23: in part_002 and part_005 a fade issues its next volume write only
\* after its previous write has completed: no fade has two writes in flight.
\* (The for loops of WhiteNoiseGenerator.ts write the gain synchronously.)
C23_WritesInOrder ==
    fader.rev \in {"002", "005"} =>
        \A t \in fader.intervals : WritesInFlight(t.id) <= 1

\* The same while no awaited setVolumeAsync has taken longer than a fade
\* step.
WritesInOrderWhenTimely ==
    (fader.rev \in {"002", "005"} /\ fader.lag = 0) =>
        \A t \in fader.intervals : WritesInFlight(t.id) <= 1

-----------------------------------------------------------------------------
(* Properties of the timers of the animation screen (specification Spec)   *)

\* C24: right after handleTouch has unlocked, no idle timer and no sleep
\* timer of the screen is pending any more.
C24_UnlockCancelsTimers ==
    (route = "animation" /\ lastEvent = "unlocked") =>
        /\ sequenceTimeout = 0
        /\ sleepTimers = 0

\* The idle timer alone: handleTouch has cleared it when it unlocks.
UnlockCancelsIdleTimer ==
    (route = "animation" /\ lastEvent = "unlocked") => sequenceTimeout = 0

\* The callback of a sleep timer never runs while the fade of an unlock is
\* running.
NoSleepExitDuringUnlockFade ==
    [][(route = "animation" /\ fading = "unlock") =>
          lastEvent' # "exitSleep"]_vars

-----------------------------------------------------------------------------
(* Properties of the status check at startup (specification Spec)          *)

\* C25: when reading the persisted onboarding state fails at startup, the
\* status check routes to onboarding and not to the main menu.
C25_FailedReadFallsBack ==
    lastEvent = "readFailed" => route = "onboarding"

\* The main menu is only ever entered with an unlock sequence in storage.
MainMenuHasSequence ==
    route = "main-menu" => stSequence # Null

\* The catch block ran and the app is on the main menu.
FailedReadOnMainMenu ==
    lastEvent = "readFailed" /\ route = "main-menu" /\ stSequence # Null

-----------------------------------------------------------------------------
(* Properties of stop() of part_002 (specification SpecFades)              *)

\* The fade-out a stop() awaits can still settle its promise: its interval
\* is set, or one of its callbacks is awaiting its write.
CanSettle(id) ==
    Interval(fader, id).live \/ WritesInFlight(id) > 0

\* C26: a stop() issued while the engine is playing completes, whatever is
\* called during its fade-out: as long as its promise is pending, the
\* fade-out that settles it is still running.
C26_StopCompletes ==
    fader.rev = "002" => \A id \in fader.awaiting : CanSettle(id)

\* A stop() can complete: its fade-out ran to the end, settled its promise
\* and left the engine not playing.
StopCompleted ==
    /\ fader.rev = "002"
    /\ fader.sound /\ ~fader.isPlaying
    /\ fader.awaiting = {}
    /\ \E t \in fader.intervals : t.kind = "out" /\ ~t.live

\* cleanup() during the fade-out: the stop() is pending for ever with the
\* engine torn down.
StopPendingAfterCleanup ==
    /\ fader.rev = "002"
    /\ ~fader.sound
    /\ \E id \in fader.awaiting : ~CanSettle(id)

\* The fade-out's interval was cleared by a callback of the fade-in that
\* was awaiting its write when stop() was called: the stop() is pending for
\* ever and the engine plays on.
StopPendingStillPlaying ==
    /\ fader.rev = "002"
    /\ fader.sound /\ fader.isPlaying
    /\ LiveIntervals(fader) = {} /\ Len(fader.inflight) = 0
    /\ \E id \in fader.awaiting : ~CanSettle(id)

-----------------------------------------------------------------------------
(* Properties of the calls in flight (specification SpecManager)           *)

\* Sound s is loaded and playing.
SoundPlaying(s) == fader.sounds[s] = "playing"

\* Nothing more happens unless a call is made: no suspended call can
\* resume.
Quiescent == \A c \in fader.calls : ~CanResume(fader, c)

\* Only the AudioManager was called, its last call was stopWhiteNoise(),
\* and every stopWhiteNoise() has returned.
StopWasLast ==
    /\ fader.rev = "manager"
    /\ ~fader.direct
    /\ fader.lastCall = "stop"
    /\ \A c \in fader.calls : c.op # "stop"

\* C27: once stopWhiteNoise() has returned and startWhiteNoise() is not
\* called after it, white noise ends up not playing: when every call in
\* flight has run as far as it can, no sound plays.
C27_StoppedStaysStopped ==
    (StopWasLast /\ Quiescent) =>
        \A s \in 1 .. Len(fader.sounds) : ~SoundPlaying(s)

\* The same when every call was made with no other call in flight.
StoppedStaysStoppedInTurn ==
    (StopWasLast /\ Quiescent /\ ~fader.overlapped) =>
        \A s \in 1 .. Len(fader.sounds) : ~SoundPlaying(s)

\* stopWhiteNoise() returned while startWhiteNoise() was awaiting its load.
StopDuringStart ==
    /\ StopWasLast
    /\ \E c \in fader.calls : c.mgr /\ c.op = "play" /\ c.pc = "load"

\* C28: a sound that is loaded and playing is the one this.sound refers
\* to, so at most one plays and stop() reaches it.
C28_OneSoundPlaying ==
    fader.rev = "manager" =>
        \A s \in 1 .. Len(fader.sounds) : SoundPlaying(s) => s = fader.sound

\* The same when every call was made with no other call in flight.
OneSoundPlayingInTurn ==
    (fader.rev = "manager" /\ ~fader.overlapped) =>
        \A s \in 1 .. Len(fader.sounds) : SoundPlaying(s) => s = fader.sound

\* Two sounds play at once.
TwoSoundsPlaying ==
    /\ fader.rev = "manager"
    /\ \E s, t \in 1 .. Len(fader.sounds) :
          s # t /\ SoundPlaying(s) /\ SoundPlaying(t)

-----------------------------------------------------------------------------
(* Properties of the sleep timer (specification SpecSleep)                 *)

\* The sleep timer the storage asks for, in minutes.
PersistedSleepTimer ==
    IF Len(effect.stSleepTimer) > 0 THEN parseInt(effect.stSleepTimer)
    ELSE DEFAULT_SLEEP_TIMER

\* C29: at most one sleep timer is pending, it was started with the
\* duration loaded from storage, and the sleep exit starts no earlier than
\* that duration after the screen was opened.
C29_SleepTimerAsPersisted ==
    effect.rev = "animation" =>
        /\ Cardinality(effect.timers) <= 1
        /\ \A timer \in effect.timers : timer.minutes = PersistedSleepTimer
        /\ effect.exitAt >= 0 => effect.exitAt >= PersistedSleepTimer

\* With the storage at the default, or without the key, the sleep exit is
\* not early.
SleepExitNotEarlyAtDefault ==
    (effect.rev = "animation"
        /\ PersistedSleepTimer = DEFAULT_SLEEP_TIMER) =>
        (effect.exitAt >= 0 => effect.exitAt >= PersistedSleepTimer)

\* Every run of the effect starts at most one sleep timer.
OneSleepTimerPerRun ==
    effect.rev = "animation" =>
        /\ Cardinality(effect.timers) <= effect.started
        /\ \A s, t \in effect.timers : s.id = t.id => s = t

\* The sleep exit starts before the persisted duration has passed.
SleepExitEarly ==
    /\ effect.rev = "animation"
    /\ effect.exitAt >= 0
    /\ effect.exitAt < PersistedSleepTimer

\* Two sleep timers are pending with nothing changed in storage.
TwoSleepTimersAtDefault ==
    /\ effect.rev = "animation"
    /\ Len(effect.stSleepTimer) = 0 /\ effect.stWhiteNoise = Null
    /\ Cardinality(effect.timers) = 2

-----------------------------------------------------------------------------
(* Properties of taps under the wrong-sequence indicator (specification    *)
(* Spec)                                                                   *)

\* C30: a classified tap that arrives while the wrong-sequence indicator
\* shows after a rejection or an idle timeout (the accumulator is empty) is
\* accepted at once: it starts an accumulator of length 1 and sets the idle
\* timer of 3000 ms anew.
C30_NoLockoutByIndicator ==
    [][ \A p \in TapPoints(width, height) :
          ( /\ route = "animation"
            /\ wrongSequenceIndicator
            /\ currentSequence = <<>>
            /\ TapCorner(p) # Null
            /\ TouchStep(p) )
          => /\ lastEvent' = "tapAccepted"
             /\ currentSequence' = <<TapCorner(p)>>
             /\ sequenceTimeout' = SEQUENCE_TIMEOUT
      ]_vars

\* C30 happens: a corner was accepted while the indicator of an earlier
\* rejection or timeout is still showing, its hide timer pending.
C30_Witness ==
    /\ route = "animation"
    /\ lastEvent = "tapAccepted"
    /\ wrongSequenceIndicator
    /\ indicatorTimers > 0
    /\ Len(currentSequence) = 1
    /\ sequenceTimeout = SEQUENCE_TIMEOUT

=============================================================================
